---- MODULE Spec2Model ----
(***************************************************************************)
(* Double-entry accounting ledger of the ACCOUNTING module:                *)
(*   src/ACCOUNTING/accounting.routes.js  (data access layer, l.142-530)   *)
(*   src/ACCOUNTING/accounting.schema.js  (configuration check, schemas)   *)
(*   src/unnamed/part_004                 (database initialisation, seed)  *)
(*   src/databaseConfig.js                (connection configuration)       *)
(*                                                                         *)
(* Money is modelled in integer thousandths of a currency unit, so that    *)
(* the 0.01 tolerance is 10 and DECIMAL(15,2) storage keeps multiples of   *)
(* 10.  JavaScript values that may be absent carry a tag.                  *)
(***************************************************************************)
EXTENDS Integers, Sequences, FiniteSets, TLC

VARIABLES
    databaseConfig,       \* src/databaseConfig.js: the module-level configuration object
    chart_of_accounts,    \* committed rows of table chart_of_accounts
    coaSeq,               \* last value of the SERIAL sequence of chart_of_accounts.id
    journal_entries,      \* committed rows of table journal_entries
    journal_entry_lines,  \* committed rows of table journal_entry_lines
    jeSeq,                \* last value of the SERIAL sequence of journal_entries.id
    jelSeq,               \* last value of the SERIAL sequence of journal_entry_lines.id
    calls,                \* one createJournalEntry invocation per client
    started,              \* number of createJournalEntry invocations begun so far
    faults,               \* number of failed statements and expired deadlines so far
    origin,               \* history: committed journal entry id -> the lines array submitted for it
    lastRead,             \* result of the most recent read operation
    seed                  \* the bootstrap run (initializeAccountingDatabase / seedChartOfAccounts)

vars == <<databaseConfig, chart_of_accounts, coaSeq, journal_entries,
          journal_entry_lines, jeSeq, jelSeq, calls, started, faults, origin,
          lastRead, seed>>

----------------------------------------------------------------------------
(* Bounds of the model *)

\* createJournalEntry invocations in one behaviour
MaxCalls == 2
\* faults of the environment in one behaviour: storage statements that fail and
\* deadlines that expire
MaxFaults == 1
\* longest lines array enumerated for the validation specification
MaxLen == 2
\* seed runs in one behaviour of the bootstrap specification
MaxSeedRuns == 2
\* largest maxRetries the bootstrap is called with (the default is 3)
MaxAttempts == 3

\* two clients call createJournalEntry concurrently
Clients == {1, 2}
\* two bootstrap processes may seed the same database
Seeders == {1, 2}

----------------------------------------------------------------------------
(* JavaScript values *)

Undefined == "<undefined>"

\* a JavaScript value used where a number is expected: a number, or not one
JsNum(n) == [num |-> TRUE, v |-> n]
JsAbsent == [num |-> FALSE, v |-> 0]

\* Number(x) || 0   (routes.js l.389, 390, 448, 449)
NumberOrZero(x) == IF x.num THEN x.v ELSE 0

\* truthiness of a string-or-undefined value (routes.js l.381, 382; schema.js l.20, 24)
Truthy(s) == s \notin {Undefined, ""}

\* the lines field of a payload: undefined, an array, or a string (a non-array
\* value that still has a length)
LinesUndefined == [t |-> "undefined", a |-> <<>>, n |-> 0]
LinesArray(a) == [t |-> "array", a |-> a, n |-> 0]
LinesString(n) == [t |-> "string", a |-> <<>>, n |-> n]

\* Array.isArray(lines)
IsArray(l) == l.t = "array"
\* lines.length, -1 standing for undefined
JsLength(l) == CASE l.t = "array" -> Len(l.a)
                 [] l.t = "string" -> l.n
                 [] OTHER -> -1

RECURSIVE SumSeq(_)
SumSeq(s) == IF s = <<>> THEN 0 ELSE Head(s) + SumSeq(Tail(s))

Abs(x) == IF x < 0 THEN -x ELSE x

\* lines.reduce((sum, line) => sum + (Number(line.debit) || 0), 0)
TotalDebits(a) == SumSeq([i \in 1..Len(a) |-> NumberOrZero(a[i].debit)])
\* lines.reduce((sum, line) => sum + (Number(line.credit) || 0), 0)
TotalCredits(a) == SumSeq([i \in 1..Len(a) |-> NumberOrZero(a[i].credit)])

\* the tolerance 0.01 of the balance check, in thousandths
Tolerance == 10


----------------------------------------------------------------------------
(* Replies delivered to the caller of a ledger operation *)

NoReply == [kind |-> "none", name |-> "", code |-> "", issues |-> <<>>, value |-> <<>>]
ErrorReply(name, code, issues) ==
    [kind |-> "error", name |-> name, code |-> code, issues |-> issues, value |-> <<>>]
OkReply(value) == [kind |-> "ok", name |-> "", code |-> "", issues |-> <<>>, value |-> value]

Issue(msg) == [msg |-> msg, debits |-> 0, credits |-> 0]

----------------------------------------------------------------------------
(* Configuration checks *)

\* Number.isNaN(databaseConfig.port) || databaseConfig.port <= 0
BadPort(cfg) == ~cfg.port.num \/ cfg.port.v <= 0

\* validateAccountingDatabaseConfig: the issues it collects
SchemaConfigIssues(cfg) ==
    (IF ~Truthy(cfg.url) THEN <<Issue("DB_HOST (databaseConfig.url) is not defined")>> ELSE <<>>)
    \o (IF ~Truthy(cfg.database)
        THEN <<Issue("DB_NAME (databaseConfig.database) is not defined")>> ELSE <<>>)
    \o (IF BadPort(cfg)
        THEN <<Issue("DB_PORT (databaseConfig.port) must be a positive number")>> ELSE <<>>)

\* validateAccountingQueryConfig: the issues it collects
QueryConfigIssues(cfg) ==
    (IF ~Truthy(cfg.url) THEN <<Issue("DB_HOST (databaseConfig.url) is not defined")>> ELSE <<>>)
    \o (IF BadPort(cfg)
        THEN <<Issue("DB_PORT (databaseConfig.port) must be a positive number")>> ELSE <<>>)
    \o (IF ~Truthy(cfg.username)
        THEN <<Issue("DB_USER (databaseConfig.username) is not defined")>> ELSE <<>>)

\* validateAccountingDatabaseConfig(); validateAccountingQueryConfig();
\* the error the pair throws, NoReply when both pass
ConfigError(cfg) ==
    IF SchemaConfigIssues(cfg) # <<>>
    THEN ErrorReply("Error", "ACCOUNTING_SCHEMA_INVALID_DB_CONFIG", SchemaConfigIssues(cfg))
    ELSE IF QueryConfigIssues(cfg) # <<>>
    THEN ErrorReply("Error", "ACCOUNTING_REPOSITORY_INVALID_DB_CONFIG", QueryConfigIssues(cfg))
    ELSE NoReply

\* configurations the process may be started with (environment variables)
ValidConfig ==
    [url |-> "localhost", database |-> "testing723422", port |-> JsNum(5432), username |-> "app"]
Configs ==
    { ValidConfig,
      [ValidConfig EXCEPT !.username = ""],
      [ValidConfig EXCEPT !.port = JsAbsent],
      [ValidConfig EXCEPT !.port = JsNum(0)],
      [ValidConfig EXCEPT !.database = ""],
      [ValidConfig EXCEPT !.url = ""] }

----------------------------------------------------------------------------
(* Payload validation of createJournalEntry *)

\* truthiness of the lines field: undefined and "" are falsy, arrays are truthy
LinesTruthy(l) == l.t = "array" \/ (l.t = "string" /\ l.n > 0)

\* if (lines && lines.length > 0): the balance check is entered
BalanceChecked(l) == LinesTruthy(l) /\ JsLength(l) > 0

\* lines.reduce is not a function: the balance check is entered on a non-array
ThrowsTypeError(p) == BalanceChecked(p.lines) /\ ~IsArray(p.lines)

\* mutant: the difference compared without Math.abs
UnbalancedNoAbs(a) == TotalDebits(a) - TotalCredits(a) > Tolerance

\* Math.abs(totalDebits - totalCredits) > 0.01
Unbalanced(a) == Abs(TotalDebits(a) - TotalCredits(a)) > Tolerance

\* mutant: the validation stops at the first issue it finds
PayloadIssuesFirstOnly(p) ==
    IF ~Truthy(p.entryDate) THEN <<Issue("entryDate is required")>>
    ELSE IF ~Truthy(p.description) THEN <<Issue("description is required")>>
    ELSE IF ~IsArray(p.lines) \/ JsLength(p.lines) = 0
    THEN <<Issue("lines array is required and must not be empty")>>
    ELSE IF Unbalanced(p.lines.a)
    THEN <<[msg |-> "journal entry must be balanced",
            debits |-> TotalDebits(p.lines.a), credits |-> TotalCredits(p.lines.a)]>>
    ELSE <<>>

\* mutant: only Array.isArray is tested, an empty array passes
LinesMissingArrayOnly(l) == ~IsArray(l)

\* !Array.isArray(lines) || lines.length === 0
LinesMissing(l) == ~IsArray(l) \/ JsLength(l) = 0

\* the issues array built by createJournalEntry, in the order it pushes them
PayloadIssues(p) ==
    (IF ~Truthy(p.entryDate) THEN <<Issue("entryDate is required")>> ELSE <<>>)
    \o (IF ~Truthy(p.description) THEN <<Issue("description is required")>> ELSE <<>>)
    \o (IF LinesMissing(p.lines)
        THEN <<Issue("lines array is required and must not be empty")>> ELSE <<>>)
    \o (IF BalanceChecked(p.lines) /\ IsArray(p.lines) /\ Unbalanced(p.lines.a)
        THEN <<[msg |-> "journal entry must be balanced",
                debits |-> TotalDebits(p.lines.a), credits |-> TotalCredits(p.lines.a)]>>
        ELSE <<>>)

\* mutant: the issues are collected but never thrown
RejectionConfigOnly(cfg, p) ==
    IF ConfigError(cfg) # NoReply THEN ConfigError(cfg)
    ELSE IF ThrowsTypeError(p) THEN ErrorReply("TypeError", "", <<>>)
    ELSE NoReply

\* mutant: the payload is validated before the configuration is checked
RejectionPayloadFirst(cfg, p) ==
    IF ThrowsTypeError(p) THEN ErrorReply("TypeError", "", <<>>)
    ELSE IF PayloadIssues(p) # <<>>
    THEN ErrorReply("Error", "ACCOUNTING_REPOSITORY_INVALID_JOURNAL_ENTRY", PayloadIssues(p))
    ELSE IF ConfigError(cfg) # NoReply THEN ConfigError(cfg)
    ELSE NoReply

\* what createJournalEntry throws before it touches storage, NoReply when it goes on
Rejection(cfg, p) ==
    IF ConfigError(cfg) # NoReply THEN ConfigError(cfg)
    ELSE IF ThrowsTypeError(p) THEN ErrorReply("TypeError", "", <<>>)
    ELSE IF PayloadIssues(p) # <<>>
    THEN ErrorReply("Error", "ACCOUNTING_REPOSITORY_INVALID_JOURNAL_ENTRY", PayloadIssues(p))
    ELSE NoReply

----------------------------------------------------------------------------
(* Chart of accounts *)

Categories == <<"assets", "liabilities", "equity", "revenue", "expenses">>

\* the accounts array of seedChartOfAccounts; an account number is its digits
StandardAccounts == <<
    [number |-> <<1,0,1,0>>, name |-> "Cash - Checking", category |-> "assets"],
    [number |-> <<1,0,2,0>>, name |-> "Cash - Savings", category |-> "assets"],
    [number |-> <<1,0,3,0>>, name |-> "Petty Cash", category |-> "assets"],
    [number |-> <<1,1,0,0>>, name |-> "Accounts Receivable", category |-> "assets"],
    [number |-> <<1,2,0,0>>, name |-> "Inventory", category |-> "assets"],
    [number |-> <<1,3,0,0>>, name |-> "Prepaid Insurance", category |-> "assets"],
    [number |-> <<1,3,1,0>>, name |-> "Prepaid Rent", category |-> "assets"],
    [number |-> <<1,5,0,0>>, name |-> "Furniture & Equipment", category |-> "assets"],
    [number |-> <<1,5,1,0>>, name |-> "Vehicles", category |-> "assets"],
    [number |-> <<1,5,2,0>>, name |-> "Machinery", category |-> "assets"],
    [number |-> <<1,5,3,0>>, name |-> "Leasehold Improvements", category |-> "assets"],
    [number |-> <<1,6,0,0>>, name |-> "Accumulated Depreciation", category |-> "assets"],
    [number |-> <<2,0,1,0>>, name |-> "Accounts Payable", category |-> "liabilities"],
    [number |-> <<2,0,2,0>>, name |-> "Credit Card Payable", category |-> "liabilities"],
    [number |-> <<2,1,0,0>>, name |-> "Accrued Payroll", category |-> "liabilities"],
    [number |-> <<2,1,1,0>>, name |-> "Accrued Interest", category |-> "liabilities"],
    [number |-> <<2,1,2,0>>, name |-> "Accrued Utilities", category |-> "liabilities"],
    [number |-> <<2,2,0,0>>, name |-> "Sales Tax Payable", category |-> "liabilities"],
    [number |-> <<2,2,1,0>>, name |-> "Payroll Tax Payable", category |-> "liabilities"],
    [number |-> <<2,3,0,0>>, name |-> "Short-Term Loans Payable", category |-> "liabilities"],
    [number |-> <<2,3,1,0>>, name |-> "Line of Credit", category |-> "liabilities"],
    [number |-> <<2,5,0,0>>, name |-> "Long-Term Loans Payable", category |-> "liabilities"],
    [number |-> <<2,5,1,0>>, name |-> "Mortgage Payable", category |-> "liabilities"],
    [number |-> <<3,0,1,0>>, name |-> "Owner's Capital", category |-> "equity"],
    [number |-> <<3,0,2,0>>, name |-> "Common Stock", category |-> "equity"],
    [number |-> <<3,0,3,0>>, name |-> "Additional Paid-In Capital", category |-> "equity"],
    [number |-> <<3,1,0,0>>, name |-> "Retained Earnings", category |-> "equity"],
    [number |-> <<3,2,0,0>>, name |-> "Owner's Drawings", category |-> "equity"],
    [number |-> <<3,2,1,0>>, name |-> "Dividends", category |-> "equity"],
    [number |-> <<4,0,1,0>>, name |-> "Product Sales Revenue", category |-> "revenue"],
    [number |-> <<4,0,2,0>>, name |-> "Service Revenue", category |-> "revenue"],
    [number |-> <<4,1,0,0>>, name |-> "Other Operating Revenue", category |-> "revenue"],
    [number |-> <<4,9,0,0>>, name |-> "Interest Income", category |-> "revenue"],
    [number |-> <<4,9,1,0>>, name |-> "Other Income", category |-> "revenue"],
    [number |-> <<5,0,1,0>>, name |-> "Cost of Materials", category |-> "expenses"],
    [number |-> <<5,0,2,0>>, name |-> "Direct Labor", category |-> "expenses"],
    [number |-> <<5,0,3,0>>, name |-> "Subcontract Manufacturing", category |-> "expenses"],
    [number |-> <<5,0,4,0>>, name |-> "Freight-In", category |-> "expenses"],
    [number |-> <<6,0,1,0>>, name |-> "Salaries and Wages", category |-> "expenses"],
    [number |-> <<6,0,2,0>>, name |-> "Payroll Taxes", category |-> "expenses"],
    [number |-> <<6,0,3,0>>, name |-> "Employee Benefits", category |-> "expenses"],
    [number |-> <<6,1,0,0>>, name |-> "Rent Expense", category |-> "expenses"],
    [number |-> <<6,1,1,0>>, name |-> "Utilities - Electric", category |-> "expenses"],
    [number |-> <<6,1,2,0>>, name |-> "Utilities - Water & Gas", category |-> "expenses"],
    [number |-> <<6,1,3,0>>, name |-> "Internet & Phone", category |-> "expenses"],
    [number |-> <<6,2,0,0>>, name |-> "Office Supplies", category |-> "expenses"],
    [number |-> <<6,3,0,0>>, name |-> "Marketing & Advertising", category |-> "expenses"],
    [number |-> <<6,4,0,0>>, name |-> "Travel Expense", category |-> "expenses"],
    [number |-> <<6,4,1,0>>, name |-> "Meals & Entertainment", category |-> "expenses"],
    [number |-> <<6,5,0,0>>, name |-> "Insurance Expense", category |-> "expenses"],
    [number |-> <<6,6,0,0>>, name |-> "Legal Fees", category |-> "expenses"],
    [number |-> <<6,6,1,0>>, name |-> "Accounting Fees", category |-> "expenses"],
    [number |-> <<6,6,2,0>>, name |-> "Consulting Fees", category |-> "expenses"],
    [number |-> <<6,7,0,0>>, name |-> "Software & Subscriptions", category |-> "expenses"],
    [number |-> <<6,8,0,0>>, name |-> "Repairs & Maintenance", category |-> "expenses"],
    [number |-> <<6,9,0,0>>, name |-> "Bank Fees", category |-> "expenses"],
    [number |-> <<6,9,1,0>>, name |-> "Merchant Fees", category |-> "expenses"],
    [number |-> <<6,9,5,0>>, name |-> "Depreciation Expense", category |-> "expenses"],
    [number |-> <<6,9,9,0>>, name |-> "Income Tax Expense", category |-> "expenses"]
>>

\* INSERT INTO chart_of_accounts (...) VALUES ($1, $2, $3, $4, true, $5, $6)
SeedRow(id, account) ==
    [id |-> id, accountNumber |-> account.number, accountName |-> account.name,
     category |-> account.category, isActive |-> TRUE]

\* the table after a seed run on an empty table has completed
SeededChart == { SeedRow(i, StandardAccounts[i]) : i \in 1..Len(StandardAccounts) }

\* a table that held rows before the first bootstrap (the seed then skips it):
\* account numbers of several lengths, ids in another order than the numbers,
\* and a deactivated account
LegacyChart ==
    { [id |-> 1, accountNumber |-> <<9,0,0>>, accountName |-> "Suspense", category |-> "assets",
       isActive |-> TRUE],
      [id |-> 2, accountNumber |-> <<1,0,1,0>>, accountName |-> "Cash - Checking",
       category |-> "assets", isActive |-> TRUE],
      [id |-> 3, accountNumber |-> <<6,1,0,0>>, accountName |-> "Rent Expense",
       category |-> "expenses", isActive |-> TRUE],
      [id |-> 4, accountNumber |-> <<4,0,1,0>>, accountName |-> "Product Sales Revenue",
       category |-> "revenue", isActive |-> FALSE],
      [id |-> 5, accountNumber |-> <<2,0,1,0,5>>, accountName |-> "Payables",
       category |-> "liabilities", isActive |-> TRUE] }

\* a table that held one row of its own before the first bootstrap
SingleChart ==
    { [id |-> 1, accountNumber |-> <<9,0,0>>, accountName |-> "Suspense", category |-> "assets",
       isActive |-> TRUE] }

----------------------------------------------------------------------------
(* Query helpers: ordering and aggregation as the SQL engine computes them *)

\* comparison of two VARCHAR account numbers, character by character
RECURSIVE StrLess(_, _)
StrLess(a, b) ==
    IF a = <<>> THEN b # <<>>
    ELSE IF b = <<>> THEN FALSE
    ELSE IF Head(a) # Head(b) THEN Head(a) < Head(b)
    ELSE StrLess(Tail(a), Tail(b))

\* ORDER BY "accountNumber" ASC
RECURSIVE OrderByAccountNumber(_)
OrderByAccountNumber(rows) ==
    IF rows = {} THEN <<>>
    ELSE LET first == CHOOSE r \in rows :
                          \A o \in rows : ~StrLess(o.accountNumber, r.accountNumber)
         IN  <<first>> \o OrderByAccountNumber(rows \ {first})

\* ORDER BY id ASC
RECURSIVE OrderById(_)
OrderById(rows) ==
    IF rows = {} THEN <<>>
    ELSE LET first == CHOOSE r \in rows : \A o \in rows : r.id <= o.id
         IN  <<first>> \o OrderById(rows \ {first})

\* SUM(jel.debit) over a group of joined rows (NULL, here 0, for an empty group:
\* the query wraps every SUM in COALESCE(..., 0))
RECURSIVE SumDebit(_)
SumDebit(rows) ==
    IF rows = {} THEN 0
    ELSE LET r == CHOOSE x \in rows : TRUE IN r.debit + SumDebit(rows \ {r})

\* mutant: SUM(jel.debit) pasted into the total_credit column
RECURSIVE SumCreditPasted(_)
SumCreditPasted(rows) ==
    IF rows = {} THEN 0
    ELSE LET r == CHOOSE x \in rows : TRUE IN r.debit + SumCreditPasted(rows \ {r})

\* SUM(jel.credit) over a group of joined rows
RECURSIVE SumCredit(_)
SumCredit(rows) ==
    IF rows = {} THEN 0
    ELSE LET r == CHOOSE x \in rows : TRUE IN r.credit + SumCredit(rows \ {r})

\* the value of a DATE column, comparable: year, month, day
DateValue(s) == CASE s = "2024-01-01" -> 20240101
                  [] s = "2024-02-01" -> 20240201
                  [] OTHER -> 0

\* mutant: ORDER BY je.id DESC, the entry date left out of the ordering
RECURSIVE OrderByIdDescOnly(_)
OrderByIdDescOnly(rows) ==
    IF rows = {} THEN <<>>
    ELSE LET first == CHOOSE r \in rows : \A o \in rows : r.id >= o.id
         IN  <<first>> \o OrderByIdDescOnly(rows \ {first})

\* ORDER BY je."entryDate" DESC, je.id DESC
RECURSIVE OrderByDateDescIdDesc(_)
OrderByDateDescIdDesc(rows) ==
    IF rows = {} THEN <<>>
    ELSE LET first == CHOOSE r \in rows : \A o \in rows :
                          \/ DateValue(r.entryDate) > DateValue(o.entryDate)
                          \/ /\ DateValue(r.entryDate) = DateValue(o.entryDate)
                             /\ r.id >= o.id
         IN  <<first>> \o OrderByDateDescIdDesc(rows \ {first})

\* LIMIT n
Limit(s, n) == IF Len(s) <= n THEN s ELSE SubSeq(s, 1, n)

----------------------------------------------------------------------------
(* Read operations: the value each returns on committed tables coa, je, jel *)

\* mutant: the query also carries WHERE "isActive" = true, as the balances query does
getChartOfAccountsActiveOnly(coa, category) ==
    OrderByAccountNumber({ a \in coa :
        a.isActive /\ (Truthy(category) => a.category = category) })

\* getChartOfAccounts(category): WHERE category = $1 only when category is truthy
getChartOfAccounts(coa, category) ==
    OrderByAccountNumber({ a \in coa : Truthy(category) => a.category = category })

\* mutant: JOIN instead of LEFT JOIN, an account without lines forms no group
BalanceRowsInnerJoin(coa, jel) ==
    OrderByAccountNumber(
        { LET group == { l \in jel : l.accountId = a.id }
          IN  [category |-> a.category, accountNumber |-> a.accountNumber,
               accountName |-> a.accountName,
               total_debit |-> SumDebit(group), total_credit |-> SumCredit(group),
               balance |-> SumDebit(group) - SumCredit(group)]
          : a \in { x \in coa : x.isActive /\ \E l \in jel : l.accountId = x.id } })

\* mutant: the query lacks WHERE coa."isActive" = true
BalanceRowsAnyAccount(coa, jel) ==
    OrderByAccountNumber(
        { LET group == { l \in jel : l.accountId = a.id }
          IN  [category |-> a.category, accountNumber |-> a.accountNumber,
               accountName |-> a.accountName,
               total_debit |-> SumDebit(group), total_credit |-> SumCredit(group),
               balance |-> SumDebit(group) - SumCredit(group)]
          : a \in coa })

\* the rows of the getAccountBalances query: one group per active account
\* (FROM chart_of_accounts LEFT JOIN journal_entry_lines ... GROUP BY coa.id)
BalanceRows(coa, jel) ==
    OrderByAccountNumber(
        { LET group == { l \in jel : l.accountId = a.id }
          IN  [category |-> a.category, accountNumber |-> a.accountNumber,
               accountName |-> a.accountName,
               total_debit |-> SumDebit(group), total_credit |-> SumCredit(group),
               balance |-> SumDebit(group) - SumCredit(group)]
          : a \in { x \in coa : x.isActive } })

\* rows.forEach(row => grouped[row.category].push({...})) for one category
Bucket(rows, category) ==
    LET mine == SelectSeq(rows, LAMBDA r : r.category = category)
    IN  [i \in 1..Len(mine) |->
            [accountNumber |-> mine[i].accountNumber, accountName |-> mine[i].accountName,
             balance |-> mine[i].balance, totalDebit |-> mine[i].total_debit,
             totalCredit |-> mine[i].total_credit]]

\* getAccountBalances(): the grouped object
getAccountBalances(coa, jel) ==
    [c \in {"assets", "liabilities", "equity", "revenue", "expenses"} |->
        Bucket(BalanceRows(coa, jel), c)]

\* mutant: the reduce adds acc.totalDebit
ReduceTotalDebit(bucket) == SumSeq([i \in 1..Len(bucket) |-> bucket[i].totalDebit])

\* balances.<category>.reduce((sum, acc) => sum + acc.balance, 0)
ReduceBalance(bucket) == SumSeq([i \in 1..Len(bucket) |-> bucket[i].balance])

\* getAccountingOverview()
getAccountingOverview(coa, jel) ==
    LET balances == getAccountBalances(coa, jel)
        totalRevenue == ReduceBalance(balances.revenue)
        totalExpenses == ReduceBalance(balances.expenses)
    IN  [totalAssets |-> ReduceBalance(balances.assets),
         totalLiabilities |-> ReduceBalance(balances.liabilities),
         totalEquity |-> ReduceBalance(balances.equity),
         totalRevenue |-> totalRevenue,
         totalExpenses |-> totalExpenses,
         netIncome |-> totalRevenue - totalExpenses]

\* getJournalEntries(limit)
getJournalEntries(je, limit) == Limit(OrderByDateDescIdDesc(je), limit)

\* a line row joined with its account (JOIN chart_of_accounts coa ON accountId = coa.id)
JoinAccount(coa, l) ==
    LET a == CHOOSE x \in coa : x.id = l.accountId
    IN  [id |-> l.id, journalEntryId |-> l.journalEntryId, accountId |-> l.accountId,
         debit |-> l.debit, credit |-> l.credit,
         accountNumber |-> a.accountNumber, accountName |-> a.accountName]

\* mutant: the query lacks WHERE jel."journalEntryId" = $1
getJournalEntryLinesUnfiltered(coa, jel, journalEntryId) ==
    LET mine == { l \in jel : \E a \in coa : a.id = l.accountId }
    IN  [i \in 1..Cardinality(mine) |-> JoinAccount(coa, OrderById(mine)[i])]

\* getJournalEntryLines(journalEntryId)
getJournalEntryLines(coa, jel, journalEntryId) ==
    LET mine == { l \in jel : /\ l.journalEntryId = journalEntryId
                              /\ \E a \in coa : a.id = l.accountId }
    IN  [i \in 1..Cardinality(mine) |-> JoinAccount(coa, OrderById(mine)[i])]


----------------------------------------------------------------------------
(* Storage engine *)

\* errors raised by the storage engine (SQLSTATE in the code field)
ForeignKeyViolation == ErrorReply("error", "23503", <<>>)
UniqueViolation == ErrorReply("error", "23505", <<>>)
ConnectionFailure == ErrorReply("Error", "08006", <<>>)
TimeoutError == ErrorReply("Error", "ACCOUNTING_REPOSITORY_TIMEOUT", <<>>)

\* outcomes of one storage statement: it succeeds, or (while failures remain to
\* be injected) the engine or the connection fails
Outcomes == IF faults < MaxFaults THEN {TRUE, FALSE} ELSE {TRUE}

\* a value stored in a DECIMAL(15, 2) column: rounded to hundredths, half away from zero
Round2(x) == IF x >= 0 THEN ((x + 5) \div 10) * 10 ELSE -(((-x + 5) \div 10) * 10)

\* mutant: the table is created without the foreign key on "accountId"
AccountExistsUnchecked(coa, accountId) == TRUE

\* CONSTRAINT fk_jel_account FOREIGN KEY ("accountId") REFERENCES chart_of_accounts(id)
AccountExists(coa, accountId) == \E a \in coa : a.id = accountId

\* mutant: the lines are inserted outside the transaction (autocommit)
VisibleAfterInsertAutocommit(committed, row) == committed \cup {row}

\* what other connections see of journal_entry_lines after an INSERT inside an
\* open transaction: nothing new before COMMIT
VisibleAfterInsert(committed, row) == committed

\* mutant: the commit writes the transaction's view over the table (last writer wins)
VisibleAfterCommitOverwrite(committed, rows) == rows

\* what other connections see of a table after COMMIT: the transaction's rows too
VisibleAfterCommit(committed, rows) == committed \cup rows

Range(s) == { s[i] : i \in DOMAIN s }

----------------------------------------------------------------------------
(* createJournalEntry *)

NoPayload == [entryDate |-> Undefined, description |-> Undefined, lines |-> LinesUndefined]

IdleCall ==
    [pc |-> "idle", payload |-> NoPayload, reply |-> NoReply, conn |-> FALSE,
     tx |-> "none", journalEntryId |-> 0, idx |-> 0, txHeader |-> <<>>, txLines |-> <<>>,
     log |-> <<>>, error |-> NoReply, value |-> <<>>]

Stmt(name, n, ok) == [stmt |-> name, n |-> n, ok |-> ok]

Line(accountId, debit, credit) == [accountId |-> accountId, debit |-> debit, credit |-> credit]

Payload(d, s, l) == [entryDate |-> d, description |-> s, lines |-> l]

\* payloads submitted by the concurrent clients (account ids of LegacyChart)
Payloads ==
    { \* the rent entry: credit 1500 on Cash, debit 1500 on Rent Expense
      Payload("2024-01-01", "Rent",
        LinesArray(<<Line(2, JsNum(0), JsNum(1500000)), Line(3, JsNum(1500000), JsNum(0))>>)),
      \* debit 1.005, credit 1.000 on the deactivated account: inside the tolerance
      Payload("2024-02-01", "Sale",
        LinesArray(<<Line(1, JsNum(1005), JsNum(0)), Line(4, JsNum(0), JsNum(1000))>>)),
      \* debits 1000, credits 900
      Payload("2024-01-01", "Unbalanced",
        LinesArray(<<Line(2, JsNum(1000000), JsNum(0)), Line(3, JsNum(0), JsNum(900000))>>)),
      \* the first line references account 99, which the chart does not hold
      Payload("2024-01-01", "Ghost first",
        LinesArray(<<Line(99, JsNum(500), JsNum(0)), Line(2, JsNum(0), JsNum(500))>>)),
      \* the last line references account 99
      Payload("2024-02-01", "Ghost last",
        LinesArray(<<Line(2, JsNum(300), JsNum(0)), Line(3, JsNum(0), JsNum(100)),
                     Line(99, JsNum(0), JsNum(200))>>)) }

\* payloads submitted by the single client of the read specification
MorePayloads ==
    Payloads \cup
    { \* the middle line references account 99
      Payload("2024-02-01", "Ghost middle",
        LinesArray(<<Line(2, JsNum(300), JsNum(0)), Line(99, JsNum(0), JsNum(100)),
                     Line(3, JsNum(0), JsNum(200))>>)),
      \* debits 900, credits 1000
      Payload("2024-02-01", "Unbalanced",
        LinesArray(<<Line(2, JsNum(900000), JsNum(0)), Line(3, JsNum(0), JsNum(1000000))>>)),
      Payload(Undefined, "", LinesArray(<<>>)),
      Payload("", "Text", LinesString(2)),
      \* date and description given, the lines empty, missing, or a string
      Payload("2024-01-01", "No lines", LinesArray(<<>>)),
      Payload("2024-01-01", "No lines", LinesUndefined),
      Payload("2024-01-01", "No lines", LinesString(2)) }

\* createJournalEntry(payload), up to the first await: the configuration and
\* payload checks throw, or the operation starts and awaits client.connect().
\* Clients are interchangeable: a call takes the lowest free client.
Submit(c, p) ==
    /\ calls[c].pc = "idle"
    /\ \A b \in Clients : b < c => calls[b].pc # "idle"
    /\ started < MaxCalls
    /\ started' = started + 1
    /\ LET r == Rejection(databaseConfig, p)
       IN  calls' = [calls EXCEPT ![c] =
               IF r # NoReply
               THEN [IdleCall EXCEPT !.pc = "done", !.payload = p, !.reply = r]
               ELSE [IdleCall EXCEPT !.pc = "connect", !.payload = p]]
    /\ UNCHANGED <<databaseConfig, chart_of_accounts, coaSeq, journal_entries,
                   journal_entry_lines, jeSeq, jelSeq, faults, origin, lastRead, seed>>

\* await client.connect()
Connect(c) ==
    /\ calls[c].pc = "connect"
    /\ \E ok \in Outcomes :
        /\ calls' = [calls EXCEPT ![c] =
               IF ok THEN [@ EXCEPT !.pc = "begin", !.conn = TRUE]
               ELSE [@ EXCEPT !.pc = "end", !.error = ConnectionFailure]]
        /\ faults' = IF ok THEN faults ELSE faults + 1
    /\ UNCHANGED <<databaseConfig, chart_of_accounts, coaSeq, journal_entries,
                   journal_entry_lines, jeSeq, jelSeq, started, origin, lastRead, seed>>

\* await client.query('BEGIN'): outside the inner try, a failure skips ROLLBACK
Begin(c) ==
    /\ calls[c].pc = "begin"
    /\ \E ok \in Outcomes :
        /\ calls' = [calls EXCEPT ![c] =
               IF ok THEN [@ EXCEPT !.pc = "header", !.tx = "open",
                                    !.log = Append(@, Stmt("BEGIN", 0, TRUE))]
               ELSE [@ EXCEPT !.pc = "end", !.error = ConnectionFailure,
                              !.log = Append(@, Stmt("BEGIN", 0, FALSE))]]
        /\ faults' = IF ok THEN faults ELSE faults + 1
    /\ UNCHANGED <<databaseConfig, chart_of_accounts, coaSeq, journal_entries,
                   journal_entry_lines, jeSeq, jelSeq, started, origin, lastRead, seed>>

\* INSERT INTO journal_entries ... RETURNING id.  The id comes from the SERIAL
\* sequence, which starts at 1 and is not rolled back, so "!journalEntryId"
\* never holds.
InsertHeader(c) ==
    /\ calls[c].pc = "header"
    /\ \E ok \in Outcomes :
        /\ calls' = [calls EXCEPT ![c] =
               IF ok
               THEN [@ EXCEPT !.pc = IF JsLength(calls[c].payload.lines) > 0
                                     THEN "line" ELSE "commit",
                              !.idx = 1, !.journalEntryId = jeSeq + 1,
                              !.txHeader = <<[id |-> jeSeq + 1,
                                              entryDate |-> calls[c].payload.entryDate,
                                              description |-> calls[c].payload.description]>>,
                              !.log = Append(@, Stmt("INSERT_HEADER", 0, TRUE))]
               ELSE [@ EXCEPT !.pc = "rollback", !.tx = "failed", !.error = ConnectionFailure,
                              !.log = Append(@, Stmt("INSERT_HEADER", 0, FALSE))]]
        /\ jeSeq' = IF ok THEN jeSeq + 1 ELSE jeSeq
        /\ faults' = IF ok THEN faults ELSE faults + 1
    /\ UNCHANGED <<databaseConfig, chart_of_accounts, coaSeq, journal_entries,
                   journal_entry_lines, jelSeq, started, origin, lastRead, seed>>

\* mutant: the catch block rethrows without ROLLBACK
AfterFailureNoRollback == "end"

\* mutant: the catch block starts the write over at the header insert
AfterFailureRetry == "header"

\* where the catch block of the transaction sends a failed statement
AfterFailure == "rollback"

\* one iteration of "for (const line of lines) await client.query(INSERT ...)"
InsertLine(c) ==
    /\ calls[c].pc = "line"
    /\ LET call == calls[c]
           line == call.payload.lines.a[call.idx]
           row == [id |-> jelSeq + 1, journalEntryId |-> call.journalEntryId,
                   accountId |-> line.accountId,
                   debit |-> Round2(NumberOrZero(line.debit)),
                   credit |-> Round2(NumberOrZero(line.credit))]
       IN  \E ok \in Outcomes :
            /\ calls' = [calls EXCEPT ![c] =
                   IF ok /\ AccountExists(chart_of_accounts, line.accountId)
                   THEN [@ EXCEPT !.pc = IF call.idx = Len(call.payload.lines.a)
                                         THEN "commit" ELSE "line",
                                  !.idx = @ + 1,
                                  !.txLines = Append(@, row),
                                  !.log = Append(@, Stmt("INSERT_LINE", call.idx, TRUE))]
                   ELSE [@ EXCEPT !.pc = AfterFailure, !.tx = "failed",
                                  !.error = IF ok THEN ForeignKeyViolation
                                            ELSE ConnectionFailure,
                                  !.log = Append(@, Stmt("INSERT_LINE", call.idx, FALSE))]]
            /\ journal_entry_lines' =
                   IF ok /\ AccountExists(chart_of_accounts, line.accountId)
                   THEN VisibleAfterInsert(journal_entry_lines, row)
                   ELSE journal_entry_lines
            /\ jelSeq' = IF ok THEN jelSeq + 1 ELSE jelSeq
            /\ faults' = IF ok THEN faults ELSE faults + 1
    /\ UNCHANGED <<databaseConfig, chart_of_accounts, coaSeq, journal_entries,
                   jeSeq, started, origin, lastRead, seed>>

\* await client.query('COMMIT')
Commit(c) ==
    /\ calls[c].pc = "commit"
    /\ \E ok \in Outcomes :
        /\ calls' = [calls EXCEPT ![c] =
               IF ok
               THEN [@ EXCEPT !.pc = "select_entry", !.tx = "none",
                              !.txHeader = <<>>, !.txLines = <<>>,
                              !.log = Append(@, Stmt("COMMIT", 0, TRUE))]
               ELSE [@ EXCEPT !.pc = AfterFailure, !.tx = "failed",
                              !.error = ConnectionFailure,
                              !.log = Append(@, Stmt("COMMIT", 0, FALSE))]]
        /\ journal_entries' =
               IF ok THEN VisibleAfterCommit(journal_entries, Range(calls[c].txHeader))
               ELSE journal_entries
        /\ journal_entry_lines' =
               IF ok THEN VisibleAfterCommit(journal_entry_lines, Range(calls[c].txLines))
               ELSE journal_entry_lines
        /\ origin' = IF ok THEN origin @@ (calls[c].journalEntryId :> calls[c].payload.lines.a)
                      ELSE origin
        /\ faults' = IF ok THEN faults ELSE faults + 1
    /\ UNCHANGED <<databaseConfig, chart_of_accounts, coaSeq, jeSeq, jelSeq,
                   started, lastRead, seed>>

\* SELECT * FROM journal_entries WHERE id = $1   (after COMMIT, same try block)
SelectEntry(c) ==
    /\ calls[c].pc = "select_entry"
    /\ \E ok \in Outcomes :
        /\ calls' = [calls EXCEPT ![c] =
               IF ok
               THEN [@ EXCEPT !.pc = "select_lines",
                              !.value = OrderById({ e \in journal_entries :
                                                      e.id = calls[c].journalEntryId }),
                              !.log = Append(@, Stmt("SELECT_ENTRY", 0, TRUE))]
               ELSE [@ EXCEPT !.pc = AfterFailure, !.error = ConnectionFailure,
                              !.log = Append(@, Stmt("SELECT_ENTRY", 0, FALSE))]]
        /\ faults' = IF ok THEN faults ELSE faults + 1
    /\ UNCHANGED <<databaseConfig, chart_of_accounts, coaSeq, journal_entries,
                   journal_entry_lines, jeSeq, jelSeq, started, origin, lastRead, seed>>

\* SELECT jel.*, coa."accountNumber", coa."accountName" ... WHERE "journalEntryId" = $1
\* and "return { ...entry.rows[0], lines: linesData.rows }"
SelectLines(c) ==
    /\ calls[c].pc = "select_lines"
    /\ \E ok \in Outcomes :
        /\ calls' = [calls EXCEPT ![c] =
               IF ok
               THEN [@ EXCEPT !.pc = "end",
                              !.value = <<[entry |-> calls[c].value,
                                           lines |-> getJournalEntryLines(chart_of_accounts,
                                                        journal_entry_lines,
                                                        calls[c].journalEntryId)]>>,
                              !.log = Append(@, Stmt("SELECT_LINES", 0, TRUE))]
               ELSE [@ EXCEPT !.pc = AfterFailure, !.error = ConnectionFailure,
                              !.log = Append(@, Stmt("SELECT_LINES", 0, FALSE))]]
        /\ faults' = IF ok THEN faults ELSE faults + 1
    /\ UNCHANGED <<databaseConfig, chart_of_accounts, coaSeq, journal_entries,
                   journal_entry_lines, jeSeq, jelSeq, started, origin, lastRead, seed>>

\* catch (error) { await client.query('ROLLBACK'); throw error; }
\* A ROLLBACK that fails throws its own error instead; the open transaction is
\* then discarded when the connection ends.
Rollback(c) ==
    /\ calls[c].pc = "rollback"
    /\ \E ok \in Outcomes :
        /\ calls' = [calls EXCEPT ![c] =
               [@ EXCEPT !.pc = "end", !.tx = "none", !.txHeader = <<>>, !.txLines = <<>>,
                         !.error = IF ok THEN @ ELSE ConnectionFailure,
                         !.log = Append(@, Stmt("ROLLBACK", 0, ok))]]
        /\ faults' = IF ok THEN faults ELSE faults + 1
    /\ UNCHANGED <<databaseConfig, chart_of_accounts, coaSeq, journal_entries,
                   journal_entry_lines, jeSeq, jelSeq, started, origin, lastRead, seed>>

\* finally { await client.end() } and the settling of the operation's promise:
\* withTimeout passes the outcome on unless its timer has fired already
End(c) ==
    /\ calls[c].pc = "end"
    /\ calls' = [calls EXCEPT ![c] =
           [@ EXCEPT !.pc = "done", !.conn = FALSE,
                     !.reply = IF @ # NoReply THEN @
                               ELSE IF calls[c].error # NoReply THEN calls[c].error
                               ELSE OkReply(calls[c].value)]]
    /\ UNCHANGED <<databaseConfig, chart_of_accounts, coaSeq, journal_entries,
                   journal_entry_lines, jeSeq, jelSeq, started, faults, origin, lastRead, seed>>

\* withTimeout(operation(), 10000, 'createJournalEntry'): the timer fires while
\* the operation is pending; the operation itself goes on
Timeout(c) ==
    /\ calls[c].pc \notin {"idle", "done"}
    /\ calls[c].reply = NoReply
    /\ faults < MaxFaults
    /\ faults' = faults + 1
    /\ calls' = [calls EXCEPT ![c].reply = TimeoutError]
    /\ UNCHANGED <<databaseConfig, chart_of_accounts, coaSeq, journal_entries,
                   journal_entry_lines, jeSeq, jelSeq, started, origin, lastRead, seed>>

\* the caller has its answer; the client may call again
Return(c) ==
    /\ calls[c].pc = "done"
    /\ calls' = [calls EXCEPT ![c] = IdleCall]
    /\ UNCHANGED <<databaseConfig, chart_of_accounts, coaSeq, journal_entries,
                   journal_entry_lines, jeSeq, jelSeq, started, faults, origin, lastRead, seed>>


----------------------------------------------------------------------------
(* Read operations through executeQuery *)

NoRead == [op |-> "", arg |-> <<>>, reply |-> NoReply]

\* executeQuery(sql, params, label): the configuration checks, then one query
\* on a connection of its own; value is what the query returns when it succeeds
executeQuery(op, arg, value, ok) ==
    [op |-> op, arg |-> arg,
     reply |-> IF ConfigError(databaseConfig) # NoReply THEN ConfigError(databaseConfig)
               ELSE IF ~ok THEN ConnectionFailure
               ELSE OkReply(<<value>>)]

Read(op, arg, value) ==
    /\ lastRead = NoRead
    /\ \E ok \in Outcomes :
        /\ lastRead' = executeQuery(op, arg, value, ok)
        /\ faults' = IF ok \/ ConfigError(databaseConfig) # NoReply THEN faults ELSE faults + 1
    /\ UNCHANGED <<databaseConfig, chart_of_accounts, coaSeq, journal_entries,
                   journal_entry_lines, jeSeq, jelSeq, calls, started, origin, seed>>

GetChartOfAccounts ==
    \E category \in {Undefined, "assets"} :
        Read("getChartOfAccounts", <<category>>, getChartOfAccounts(chart_of_accounts, category))

GetAccountBalances ==
    Read("getAccountBalances", <<>>, getAccountBalances(chart_of_accounts, journal_entry_lines))

GetAccountingOverview ==
    Read("getAccountingOverview", <<>>,
         getAccountingOverview(chart_of_accounts, journal_entry_lines))

GetJournalEntries ==
    \E limit \in {1, 50} :
        Read("getJournalEntries", <<limit>>, getJournalEntries(journal_entries, limit))

GetJournalEntryLines ==
    \E id \in {1, 2} :
        Read("getJournalEntryLines", <<id>>,
             getJournalEntryLines(chart_of_accounts, journal_entry_lines, id))

\* the route handler sends the result (res.status(200).json) or passes the error on
Respond ==
    /\ lastRead # NoRead
    /\ lastRead' = NoRead
    /\ UNCHANGED <<databaseConfig, chart_of_accounts, coaSeq, journal_entries,
                   journal_entry_lines, jeSeq, jelSeq, calls, started, faults, origin, seed>>

----------------------------------------------------------------------------
(* seedChartOfAccounts *)

IdleSeed == [pc |-> "idle", count |-> 0, idx |-> 0, result |-> ""]

\* mutant: the count is read from a column the query does not return, so it is 0
AlreadySeededNever(count) == FALSE

\* if (count > 0) return;
AlreadySeeded(count) == count > 0

\* seedChartOfAccounts(client) is entered
SeedStart(s) ==
    /\ seed.run[s].pc = "idle"
    /\ seed.runs < MaxSeedRuns
    /\ seed' = [seed EXCEPT !.run[s] = [IdleSeed EXCEPT !.pc = "count"], !.runs = @ + 1]
    /\ UNCHANGED <<databaseConfig, chart_of_accounts, coaSeq, journal_entries,
                   journal_entry_lines, jeSeq, jelSeq, calls, started, faults, origin, lastRead>>

\* SELECT COUNT(*) AS count FROM chart_of_accounts, and the early return
SeedCount(s) ==
    /\ seed.run[s].pc = "count"
    /\ LET count == Cardinality(chart_of_accounts)
       IN  seed' = [seed EXCEPT !.run[s] =
               IF AlreadySeeded(count)
               THEN [@ EXCEPT !.pc = "done", !.count = count, !.result = "skipped"]
               ELSE [@ EXCEPT !.pc = "insert", !.count = count, !.idx = 1]]
    /\ UNCHANGED <<databaseConfig, chart_of_accounts, coaSeq, journal_entries,
                   journal_entry_lines, jeSeq, jelSeq, calls, started, faults, origin, lastRead>>

\* mutant: the table is created without the UNIQUE constraint
NumberTakenUnchecked(coa, number) == FALSE

\* CONSTRAINT idx_coa_account_number UNIQUE ("accountNumber")
NumberTaken(coa, number) == \E a \in coa : a.accountNumber = number

\* mutant: the loop stops one account short of the end of the list
LoopDoneEarly(idx) == idx = Len(StandardAccounts) - 1

\* for (const account of accounts): the iteration at idx is the last one
LoopDone(idx) == idx = Len(StandardAccounts)

\* one iteration of "for (const account of accounts) await client.query(INSERT ...)":
\* each insert is committed on its own; a failure ends the run with its error
SeedInsert(s) ==
    /\ seed.run[s].pc = "insert"
    /\ LET idx == seed.run[s].idx
           account == StandardAccounts[idx]
       IN  \E ok \in Outcomes :
            LET inserted == ok /\ ~NumberTaken(chart_of_accounts, account.number)
            IN  /\ chart_of_accounts' =
                       IF inserted
                       THEN chart_of_accounts \cup {SeedRow(coaSeq + 1, account)}
                       ELSE chart_of_accounts
                /\ coaSeq' = IF ok THEN coaSeq + 1 ELSE coaSeq
                /\ faults' = IF ok THEN faults ELSE faults + 1
                /\ seed' = [seed EXCEPT !.run[s] =
                       IF ~inserted THEN [@ EXCEPT !.pc = "done", !.result = "failed"]
                       ELSE IF LoopDone(idx)
                       THEN [@ EXCEPT !.pc = "done", !.result = "seeded"]
                       ELSE [@ EXCEPT !.idx = idx + 1]]
    /\ UNCHANGED <<databaseConfig, journal_entries, journal_entry_lines, jeSeq, jelSeq,
                   calls, started, origin, lastRead>>

\* seedChartOfAccounts has returned or thrown
SeedReturn(s) ==
    /\ seed.run[s].pc = "done"
    /\ seed' = [seed EXCEPT !.run[s] = IdleSeed]
    /\ UNCHANGED <<databaseConfig, chart_of_accounts, coaSeq, journal_entries,
                   journal_entry_lines, jeSeq, jelSeq, calls, started, faults, origin, lastRead>>

----------------------------------------------------------------------------
(* Deletes issued against the tables, as their foreign keys rule them *)

\* mutant: fk_jel_account is declared without ON DELETE RESTRICT taking effect
RestrictedNever(jel, accountId) == FALSE

\* fk_jel_account ... ON DELETE RESTRICT: a committed line references the account
Restricted(jel, accountId) == \E l \in jel : l.accountId = accountId

\* fk_jel_journal_entry ... ON DELETE CASCADE: the lines left when an entry goes
Cascade(jel, journalEntryId) == { l \in jel : l.journalEntryId # journalEntryId }

\* a line inserted by an open transaction holds a key lock on its account row;
\* a DELETE of that row waits for the transaction to end
KeyLocked(accountId) ==
    \E c \in Clients : \E k \in DOMAIN calls[c].txLines :
        calls[c].txLines[k].accountId = accountId

\* DELETE FROM chart_of_accounts WHERE id = $1, one autocommitted statement
DeleteAccount ==
    /\ lastRead = NoRead
    /\ \E id \in {2, 5} :
        /\ ~KeyLocked(id)
        /\ LET refused == Restricted(journal_entry_lines, id)
               gone == { a \in chart_of_accounts : a.id = id }
           IN  /\ chart_of_accounts' = IF refused THEN chart_of_accounts
                                       ELSE chart_of_accounts \ gone
               /\ lastRead' = [op |-> "deleteAccount", arg |-> <<id>>,
                               reply |-> IF refused THEN ForeignKeyViolation
                                         ELSE OkReply(<<Cardinality(gone)>>)]
    /\ UNCHANGED <<databaseConfig, coaSeq, journal_entries, journal_entry_lines,
                   jeSeq, jelSeq, calls, started, faults, origin, seed>>

\* DELETE FROM journal_entries WHERE id = $1, one autocommitted statement; an
\* entry of a transaction still open is not visible to it
DeleteJournalEntry ==
    /\ lastRead = NoRead
    /\ \E id \in {1, 2} :
        LET gone == { e \in journal_entries : e.id = id }
        IN  /\ journal_entries' = journal_entries \ gone
            /\ journal_entry_lines' =
                   IF gone = {} THEN journal_entry_lines
                   ELSE Cascade(journal_entry_lines, id)
            /\ lastRead' = [op |-> "deleteJournalEntry", arg |-> <<id>>,
                            reply |-> OkReply(<<Cardinality(gone)>>)]
    /\ UNCHANGED <<databaseConfig, chart_of_accounts, coaSeq, jeSeq, jelSeq,
                   calls, started, faults, origin, seed>>

----------------------------------------------------------------------------
(* initializeAccountingDatabase and retryWithBackoff *)

\* baseDelayMs: 500 in the call of retryWithBackoff
BaseDelayMs == 500

\* the bootstrap runs its seeding as this seeder
BootSeeder == 1

AdminFailure == ErrorReply("Error", "ECONNREFUSED", <<>>)
BootTimeoutError == ErrorReply("Error", "ACCOUNTING_DB_TIMEOUT", <<>>)

IdleBoot == [pc |-> "idle", attempts |-> 0, attempt |-> 0, invocations |-> 0,
             waits |-> <<>>, errors |-> <<>>, lastError |-> NoReply,
             outcome |-> "", reply |-> NoReply]

\* mutant: the exponent is the number of failures, not one less
BackoffDelayFromTwo(baseDelayMs, attempt) == baseDelayMs * 2 ^ attempt

\* const delay = baseDelayMs * 2 ** (attempt - 1);
BackoffDelay(baseDelayMs, attempt) == baseDelayMs * 2 ^ (attempt - 1)

\* initializeAccountingDatabase(options) is called: validateAccountingDatabaseConfig()
\* throws on a bad configuration, otherwise retryWithBackoff is entered with
\* attempts = maxRetries
BootStart ==
    /\ seed.boot.pc = "idle"
    /\ \E maxRetries \in 1..MaxAttempts :
          seed' = [seed EXCEPT !.boot =
              IF SchemaConfigIssues(databaseConfig) # <<>>
              THEN [@ EXCEPT !.pc = "done", !.outcome = "rejected",
                             !.reply = ErrorReply("Error", "ACCOUNTING_SCHEMA_INVALID_DB_CONFIG",
                                                  SchemaConfigIssues(databaseConfig))]
              ELSE [@ EXCEPT !.pc = "loop", !.attempts = maxRetries]]
    /\ UNCHANGED <<databaseConfig, chart_of_accounts, coaSeq, journal_entries,
                   journal_entry_lines, jeSeq, jelSeq, calls, started, faults, origin, lastRead>>

\* while (attempt < attempts) { try { await operation(); ...: the operation connects
\* as administrator, ensures the database and the tables, and enters
\* seedChartOfAccounts; any of the steps before the seeding may fail
BootInvoke ==
    /\ seed.boot.pc = "loop"
    /\ seed.boot.attempt < seed.boot.attempts
    /\ \E ok \in BOOLEAN :
          seed' = [seed EXCEPT
              !.boot = IF ok
                       THEN [@ EXCEPT !.pc = "operation", !.invocations = @ + 1]
                       ELSE [@ EXCEPT !.pc = "caught", !.invocations = @ + 1,
                                      !.lastError = AdminFailure,
                                      !.errors = Append(@, AdminFailure)],
              !.run[BootSeeder] = IF ok THEN [IdleSeed EXCEPT !.pc = "count"] ELSE @]
    /\ UNCHANGED <<databaseConfig, chart_of_accounts, coaSeq, journal_entries,
                   journal_entry_lines, jeSeq, jelSeq, calls, started, faults, origin, lastRead>>

\* seedChartOfAccounts has returned (the operation resolves and retryWithBackoff
\* returns) or thrown (the catch block records the error)
BootOperationEnds ==
    /\ seed.boot.pc = "operation"
    /\ seed.run[BootSeeder].pc = "done"
    /\ seed' = [seed EXCEPT
          !.boot = IF seed.run[BootSeeder].result = "failed"
                   THEN [@ EXCEPT !.pc = "caught", !.lastError = ConnectionFailure,
                                  !.errors = Append(@, ConnectionFailure)]
                   ELSE [@ EXCEPT !.pc = "done", !.outcome = "returned",
                                  !.reply = IF @ = NoReply THEN OkReply(<<>>) ELSE @],
          !.run[BootSeeder] = IdleSeed]
    /\ UNCHANGED <<databaseConfig, chart_of_accounts, coaSeq, journal_entries,
                   journal_entry_lines, jeSeq, jelSeq, calls, started, faults, origin, lastRead>>

\* catch (error) { lastError = error; attempt += 1; if (attempt >= attempts) break;
\* ... await new Promise((resolve) => setTimeout(resolve, delay)); } and, after the
\* loop, throw lastError
BootCatch ==
    /\ seed.boot.pc = "caught"
    /\ LET attempt == seed.boot.attempt + 1
       IN  seed' = [seed EXCEPT !.boot =
               IF attempt >= seed.boot.attempts
               THEN [@ EXCEPT !.pc = "done", !.attempt = attempt, !.outcome = "thrown",
                              !.reply = IF @ = NoReply THEN seed.boot.lastError ELSE @]
               ELSE [@ EXCEPT !.pc = "loop", !.attempt = attempt,
                              !.waits = Append(@, BackoffDelay(BaseDelayMs, attempt))]]
    /\ UNCHANGED <<databaseConfig, chart_of_accounts, coaSeq, journal_entries,
                   journal_entry_lines, jeSeq, jelSeq, calls, started, faults, origin, lastRead>>

\* withTimeout(retryWithBackoff(...), timeoutMs, 'initializeAccountingDatabase'):
\* the timer rejects the caller's promise; the retry loop is not cancelled
BootTimeout ==
    /\ seed.boot.pc \notin {"idle", "done"}
    /\ seed.boot.reply = NoReply
    /\ faults < MaxFaults
    /\ faults' = faults + 1
    /\ seed' = [seed EXCEPT !.boot.reply = BootTimeoutError]
    /\ UNCHANGED <<databaseConfig, chart_of_accounts, coaSeq, journal_entries,
                   journal_entry_lines, jeSeq, jelSeq, calls, started, origin, lastRead>>

----------------------------------------------------------------------------
(* Specifications *)

MaxId(rows) == IF rows = {} THEN 0 ELSE CHOOSE n \in { r.id : r \in rows } :
                                           \A r \in rows : r.id <= n

InitWith(configs, charts) ==
    /\ databaseConfig \in configs
    /\ chart_of_accounts \in charts
    /\ coaSeq = MaxId(chart_of_accounts)
    /\ journal_entries = {}
    /\ journal_entry_lines = {}
    /\ jeSeq = 0
    /\ jelSeq = 0
    /\ calls = [c \in Clients |-> IdleCall]
    /\ started = 0
    /\ faults = 0
    /\ origin = <<>>
    /\ lastRead = NoRead
    /\ seed = [run |-> [s \in Seeders |-> IdleSeed], runs |-> 0, boot |-> IdleBoot]

\* the ledger, serving requests after the bootstrap, on a chart that was in the
\* database before (process.env.DB_USER unset gives the second configuration)
Init == InitWith({ValidConfig, [ValidConfig EXCEPT !.username = ""]}, {LegacyChart})

\* the steps of createJournalEntry after the call
Step(c) ==
    \/ Connect(c)
    \/ Begin(c)
    \/ InsertHeader(c)
    \/ InsertLine(c)
    \/ Commit(c)
    \/ SelectEntry(c)
    \/ SelectLines(c)
    \/ Rollback(c)
    \/ End(c)
    \/ Timeout(c)

\* two clients, one call each, every interleaving of their steps
Next ==
    \E c \in Clients :
        \/ \E p \in Payloads : Submit(c, p)
        \/ Step(c)

Spec == Init /\ [][Next]_vars

\* one client calling again and again while the read operations run; a read's
\* result is handed to the caller before anything else happens
ReadNext ==
    \/ /\ lastRead = NoRead
       /\ \/ \E p \in MorePayloads : Submit(1, p)
          \/ Step(1)
          \/ Return(1)
    \/ GetChartOfAccounts
    \/ GetAccountBalances
    \/ GetAccountingOverview
    \/ GetJournalEntries
    \/ GetJournalEntryLines
    \/ Respond

ReadSpec == Init /\ [][ReadNext]_vars

\* the bootstrap: seed runs on an empty table or on one that holds rows already
SeedInit == InitWith({ValidConfig}, {{}, SingleChart, LegacyChart})

SeedNext ==
    \E s \in Seeders :
        \/ SeedStart(s)
        \/ SeedCount(s)
        \/ SeedInsert(s)
        \/ SeedReturn(s)

SeedSpec == SeedInit /\ [][SeedNext]_vars

\* payload validation on its own: every payload over a small alphabet
Amounts == {JsAbsent, JsNum(1000), JsNum(1011)}
LineSet == { Line(1, d, k) : d \in Amounts, k \in Amounts }
SeqsUpTo(S, n) == UNION { [1..k -> S] : k \in 0..n }
AllPayloads ==
    { [entryDate |-> d, description |-> s, lines |-> l] :
        d \in {Undefined, "", "2024-01-01"},
        s \in {Undefined, "Rent"},
        l \in {LinesUndefined, LinesString(0), LinesString(2)}
              \cup { LinesArray(a) : a \in SeqsUpTo(LineSet, MaxLen) } }

ValidateInit == InitWith(Configs, {LegacyChart})

ValidateNext == \E p \in AllPayloads : Submit(1, p)

ValidateSpec == ValidateInit /\ [][ValidateNext]_vars

\* one client calling again and again while accounts and entries are deleted
\* directly in the database
AdminInit == InitWith({ValidConfig}, {LegacyChart})

AdminNext ==
    \/ /\ lastRead = NoRead
       /\ \/ \E p \in Payloads : Submit(1, p)
          \/ Step(1)
          \/ Return(1)
    \/ DeleteAccount
    \/ DeleteJournalEntry
    \/ Respond

AdminSpec == AdminInit /\ [][AdminNext]_vars

\* balanced payloads whose lines are not one-sided: a line with both amounts,
\* lines with no amount, lines with negative amounts; and the rent entry
LinePayloads ==
    { Payload("2024-01-01", "Both sides",
        LinesArray(<<Line(2, JsNum(500000), JsNum(500000))>>)),
      Payload("2024-01-01", "No amounts",
        LinesArray(<<Line(2, JsNum(0), JsNum(0)), Line(3, JsAbsent, JsAbsent)>>)),
      Payload("2024-01-01", "Negative",
        LinesArray(<<Line(2, JsNum(-100000), JsNum(0)), Line(3, JsNum(0), JsNum(-100000))>>)),
      Payload("2024-01-01", "Rent",
        LinesArray(<<Line(2, JsNum(0), JsNum(1500000)), Line(3, JsNum(1500000), JsNum(0))>>)) }

\* one client submitting these payloads, one call after the other
LineInit == InitWith({ValidConfig}, {LegacyChart})

LineNext ==
    \/ \E p \in LinePayloads : Submit(1, p)
    \/ Step(1)
    \/ Return(1)

LineSpec == LineInit /\ [][LineNext]_vars

\* the read specification started under every configuration, valid or not
ConfigInit == InitWith(Configs, {LegacyChart})

ConfigSpec == ConfigInit /\ [][ReadNext]_vars

\* the bootstrap of a fresh database: initializeAccountingDatabase is called once,
\* with an empty chart, under a good or a bad configuration
BootInit == InitWith({ValidConfig, [ValidConfig EXCEPT !.database = ""]}, {{}})

BootNext ==
    \/ BootStart
    \/ BootInvoke
    \/ SeedCount(BootSeeder)
    \/ SeedInsert(BootSeeder)
    \/ BootOperationEnds
    \/ BootCatch
    \/ BootTimeout

BootSpec == BootInit /\ [][BootNext]_vars

\* the event loop runs every pending continuation and timer of the bootstrap
BootFairSpec == BootSpec /\ WF_vars(BootNext)

\* a chart whose accounts are all active ("isActive" BOOLEAN DEFAULT TRUE)
ActiveChart == { [a EXCEPT !.isActive = TRUE] : a \in LegacyChart }

\* payloads whose amounts have three decimals: three debits of 1.005 against a
\* credit of 3.014; three debits of 1.005 against credits of 1.004, 1.004 and
\* 1.007 (equal totals); a debit of 1.005 against a credit of 1.000; the rent entry
RoundPayloads ==
    { Payload("2024-01-01", "Three halves",
        LinesArray(<<Line(3, JsNum(1005), JsNum(0)), Line(3, JsNum(1005), JsNum(0)),
                     Line(3, JsNum(1005), JsNum(0)), Line(2, JsNum(0), JsNum(3014))>>)),
      Payload("2024-01-01", "Equal totals",
        LinesArray(<<Line(3, JsNum(1005), JsNum(0)), Line(3, JsNum(1005), JsNum(0)),
                     Line(3, JsNum(1005), JsNum(0)), Line(2, JsNum(0), JsNum(1004)),
                     Line(4, JsNum(0), JsNum(1004)), Line(5, JsNum(0), JsNum(1007))>>)),
      Payload("2024-01-01", "Sale",
        LinesArray(<<Line(1, JsNum(1005), JsNum(0)), Line(4, JsNum(0), JsNum(1000))>>)),
      Payload("2024-01-01", "Rent",
        LinesArray(<<Line(2, JsNum(0), JsNum(1500000)), Line(3, JsNum(1500000), JsNum(0))>>)) }

\* one client submitting these payloads, one call after the other, and a reader
\* of the overview
RoundInit == InitWith({ValidConfig}, {ActiveChart})

RoundNext ==
    \/ /\ lastRead = NoRead
       /\ \/ \E p \in RoundPayloads : Submit(1, p)
          \/ Step(1)
          \/ Return(1)
    \/ GetAccountingOverview
    \/ Respond

RoundSpec == RoundInit /\ [][RoundNext]_vars

----------------------------------------------------------------------------
(* Properties *)

ConfigValid == ConfigError(databaseConfig) = NoReply

ValidationCode == "ACCOUNTING_REPOSITORY_INVALID_JOURNAL_ENTRY"

\* submitted totals of a lines array, each amount read as Number(x) || 0
SubmittedDebits(a) == SumSeq([i \in 1..Len(a) |-> IF a[i].debit.num THEN a[i].debit.v ELSE 0])
SubmittedCredits(a) == SumSeq([i \in 1..Len(a) |-> IF a[i].credit.num THEN a[i].credit.v ELSE 0])
WithinTolerance(a) ==
    /\ SubmittedDebits(a) - SubmittedCredits(a) <= 10
    /\ SubmittedCredits(a) - SubmittedDebits(a) <= 10

\* C1: every journal entry in storage came from a lines array whose submitted
\* debits and credits are equal within 0.01, whatever calls were accepted,
\* rejected or failed before.
C1_StoredEntriesBalanced ==
    \A e \in journal_entries :
        /\ e.id \in DOMAIN origin
        /\ WithinTolerance(origin[e.id])

\* an entry whose submitted totals differ (by 0.005) is in storage, and a later
\* call was rejected by validation
C1_Witness ==
    /\ \E e \in journal_entries :
          SubmittedDebits(origin[e.id]) # SubmittedCredits(origin[e.id])
    /\ calls[1].pc = "done"
    /\ calls[1].reply.code = ValidationCode

\* C2: a call whose lines are unbalanced gets an error before any connection is
\* opened and before any statement is issued, and leaves the numbers of journal
\* entries and of lines as they were; under a valid configuration that error is
\* the validation error.
C2_UnbalancedRejectedUntouched ==
    [][\A c \in Clients :
         ( /\ calls[c].pc = "idle"
           /\ calls'[c].pc # "idle"
           /\ calls'[c].payload.lines.t = "array"
           /\ ~WithinTolerance(calls'[c].payload.lines.a) )
         => ( /\ calls'[c].pc = "done"
              /\ calls'[c].reply.kind = "error"
              /\ ConfigValid => calls'[c].reply.code = ValidationCode
              /\ ~calls'[c].conn
              /\ calls'[c].log = <<>>
              /\ Cardinality(journal_entries') = Cardinality(journal_entries)
              /\ Cardinality(journal_entry_lines') = Cardinality(journal_entry_lines)
              /\ jeSeq' = jeSeq /\ jelSeq' = jelSeq )]_vars

\* the 1000 / 900 entry was rejected while storage held an entry and its lines
C2_Witness ==
    /\ calls[1].pc = "done"
    /\ calls[1].payload.lines.t = "array"
    /\ SubmittedDebits(calls[1].payload.lines.a) = 1000000
    /\ SubmittedCredits(calls[1].payload.lines.a) = 900000
    /\ calls[1].reply.code = ValidationCode
    /\ Cardinality(journal_entries) = 1
    /\ Cardinality(journal_entry_lines) = 2

\* the preconditions of createJournalEntry a payload violates
Violated(p) ==
    { m \in {"entryDate is required", "description is required",
             "lines array is required and must not be empty",
             "journal entry must be balanced"} :
        \/ m = "entryDate is required" /\ p.entryDate \in {Undefined, ""}
        \/ m = "description is required" /\ p.description \in {Undefined, ""}
        \/ /\ m = "lines array is required and must not be empty"
           /\ (p.lines.t # "array" \/ Len(p.lines.a) = 0)
        \/ /\ m = "journal entry must be balanced"
           /\ p.lines.t = "array" /\ ~WithinTolerance(p.lines.a) }

HasGhostLine(p) ==
    /\ p.lines.t = "array"
    /\ \E i \in DOMAIN p.lines.a :
          \A a \in chart_of_accounts : a.id # p.lines.a[i].accountId

\* C4: while a call with an otherwise valid payload, one of whose lines
\* references a missing account, is running, no step changes the committed
\* journal entries or lines (wherever the line stands), and the call ends with
\* an error.
C4_MissingAccountRollsBack ==
    [][\A c \in Clients :
         ( /\ calls'[c].pc # "idle"
           /\ ConfigValid
           /\ Violated(calls'[c].payload) = {}
           /\ HasGhostLine(calls'[c].payload) )
         => ( /\ journal_entries' = journal_entries
              /\ journal_entry_lines' = journal_entry_lines
              /\ calls'[c].pc = "done" => calls'[c].reply.kind = "error" )]_vars

\* a call whose third line references a missing account has inserted its
\* header and two lines, was rolled back and answered with the engine's error,
\* while storage holds an earlier entry
C4_Witness ==
    /\ calls[1].pc = "done"
    /\ HasGhostLine(calls[1].payload)
    /\ calls[1].idx = 3
    /\ calls[1].reply = ForeignKeyViolation
    /\ \E i \in DOMAIN calls[1].log : calls[1].log[i] = Stmt("ROLLBACK", 0, TRUE)
    /\ Cardinality(journal_entries) = 1

\* ids of the entries a reader of getJournalEntries sees
VisibleEntryIds ==
    LET seen == getJournalEntries(journal_entries, jeSeq + 1)
    IN  { seen[i].id : i \in DOMAIN seen }

\* C5: whenever a read may start, for every entry id, the read operations show
\* either the header and all the lines submitted for it, in order and as
\* stored, or neither header nor lines; and the balances count no line whose
\* header is not visible.
C5_AllOrNothingVisible ==
    lastRead = NoRead =>
    /\ \A id \in 1..(jeSeq + 1) :
          LET lines == getJournalEntryLines(chart_of_accounts, journal_entry_lines, id)
          IN  IF id \in VisibleEntryIds
              THEN /\ id \in DOMAIN origin
                   /\ Len(lines) = Len(origin[id])
                   /\ \A k \in DOMAIN lines :
                         /\ lines[k].accountId = origin[id][k].accountId
                         /\ lines[k].debit = Round2(NumberOrZero(origin[id][k].debit))
                         /\ lines[k].credit = Round2(NumberOrZero(origin[id][k].credit))
              ELSE lines = <<>>
    /\ getAccountBalances(chart_of_accounts, journal_entry_lines)
         = getAccountBalances(chart_of_accounts,
              { l \in journal_entry_lines : l.journalEntryId \in VisibleEntryIds })
    /\ \A l \in journal_entry_lines : l.journalEntryId \in VisibleEntryIds

\* the balances were read while a transaction held a header and two lines not
\* yet committed, next to a committed entry
C5_Witness ==
    /\ lastRead.op = "getAccountBalances"
    /\ lastRead.reply.kind = "ok"
    /\ calls[1].pc = "commit"
    /\ Len(calls[1].txLines) = 2
    /\ Cardinality(journal_entries) = 1

\* the statements of a log, without their outcome
Issued(log) == [i \in DOMAIN log |-> <<log[i].stmt, log[i].n>>]

\* BEGIN, insert header, insert each of n lines in input order, COMMIT
TransactionOrder(n) ==
    <<(<<"BEGIN", 0>>), (<<"INSERT_HEADER", 0>>)>>
    \o [i \in 1..n |-> <<"INSERT_LINE", i>>]
    \o <<(<<"COMMIT", 0>>)>>

IsPrefix(s, q) == Len(s) <= Len(q) /\ \A i \in DOMAIN s : s[i] = q[i]

\* the part of a log up to its first COMMIT or first failed statement
Transaction(log) ==
    LET stops == { i \in DOMAIN log : log[i].stmt = "COMMIT" \/ ~log[i].ok }
        last == IF stops = {} THEN Len(log)
                ELSE CHOOSE i \in stops : \A j \in stops : i <= j
    IN  SubSeq(log, 1, last)

\* C6: the statements of a call up to its COMMIT or its first failure follow the
\* order BEGIN, insert header, insert each line in input order, COMMIT; every
\* statement before a COMMIT has succeeded; after a failed line insert no COMMIT
\* is issued, and the error of the call reaches the caller only after a ROLLBACK.
C6_StatementOrder ==
    \A c \in Clients :
        LET call == calls[c]
            log == call.log
            n == Len(call.payload.lines.a)
            failedLine == \E i \in DOMAIN log : log[i].stmt = "INSERT_LINE" /\ ~log[i].ok
        IN  log # <<>> =>
            /\ IsPrefix(Issued(Transaction(log)), TransactionOrder(n))
            /\ \A i \in DOMAIN log :
                  log[i].stmt = "COMMIT" => \A j \in 1..(i - 1) : log[j].ok
            /\ \A i \in DOMAIN log : \A j \in DOMAIN log :
                  (log[i].stmt = "INSERT_LINE" /\ ~log[i].ok /\ j > i)
                      => log[j].stmt = "ROLLBACK"
            /\ ( /\ failedLine
                 /\ call.reply.kind = "error"
                 /\ call.reply # TimeoutError )
               => log[Len(log)].stmt = "ROLLBACK"

\* one call has committed after two line inserts while the other failed on its
\* third line, rolled back and then returned the error
C6_Witness ==
    /\ \E c \in Clients :
          /\ calls[c].pc = "done"
          /\ calls[c].reply = ForeignKeyViolation
          /\ Issued(calls[c].log) =
                <<(<<"BEGIN", 0>>), (<<"INSERT_HEADER", 0>>), (<<"INSERT_LINE", 1>>),
                  (<<"INSERT_LINE", 2>>), (<<"INSERT_LINE", 3>>), (<<"ROLLBACK", 0>>)>>
    /\ \E c \in Clients :
          /\ calls[c].reply.kind = "ok"
          /\ \E i \in DOMAIN calls[c].log : calls[c].log[i] = Stmt("COMMIT", 0, TRUE)


\* the debit and the credit of the committed line with a given id, 0 when that
\* line does not reference the account
LineDebit(id, accountId) ==
    LET ls == { l \in journal_entry_lines : l.id = id /\ l.accountId = accountId }
    IN  IF ls = {} THEN 0 ELSE (CHOOSE l \in ls : TRUE).debit
LineCredit(id, accountId) ==
    LET ls == { l \in journal_entry_lines : l.id = id /\ l.accountId = accountId }
    IN  IF ls = {} THEN 0 ELSE (CHOOSE l \in ls : TRUE).credit

\* totals of an account computed line by line over the committed lines
DirectDebit(accountId) == SumSeq([id \in 1..jelSeq |-> LineDebit(id, accountId)])
DirectCredit(accountId) == SumSeq([id \in 1..jelSeq |-> LineCredit(id, accountId)])

\* getAccountBalances has just returned a result; storage is as it was read
BalancesRead == lastRead.op = "getAccountBalances" /\ lastRead.reply.kind = "ok"
ReportedBalances == lastRead.reply.value[1]

\* C7: for every active account, getAccountBalances reports totalDebit,
\* totalCredit and balance equal to the sum of debit, the sum of credit and
\* their difference over the committed lines that reference the account.
C7_BalancesMatchLines ==
    BalancesRead =>
        \A a \in chart_of_accounts :
            a.isActive =>
                \E i \in DOMAIN ReportedBalances[a.category] :
                    LET row == ReportedBalances[a.category][i]
                    IN  /\ row.accountNumber = a.accountNumber
                        /\ row.totalDebit = DirectDebit(a.id)
                        /\ row.totalCredit = DirectCredit(a.id)
                        /\ row.balance = DirectDebit(a.id) - DirectCredit(a.id)

\* the balances were read after two entries had credited the Cash account
C7_Witness ==
    /\ lastRead.op = "getAccountBalances"
    /\ lastRead.reply.kind = "ok"
    /\ \E i \in DOMAIN lastRead.reply.value[1].assets :
          /\ lastRead.reply.value[1].assets[i].accountNumber = <<1,0,1,0>>
          /\ lastRead.reply.value[1].assets[i].totalCredit = 3000000
          /\ lastRead.reply.value[1].assets[i].balance = -3000000

\* C8: getAccountBalances returns exactly the five buckets; every active
\* account appears exactly once, in the bucket of its category; nothing else
\* appears, so no inactive account does; within a bucket the account numbers
\* ascend; an active account without lines appears with zero totals.
C8_BucketsComplete ==
    BalancesRead =>
    LET b == ReportedBalances
        active == { a \in chart_of_accounts : a.isActive }
    IN  /\ DOMAIN b = {"assets", "liabilities", "equity", "revenue", "expenses"}
        /\ \A c \in DOMAIN b :
              /\ Len(b[c]) = Cardinality({ a \in active : a.category = c })
              /\ \A i \in DOMAIN b[c] :
                    \E a \in active : a.category = c /\ a.accountNumber = b[c][i].accountNumber
              /\ \A i \in DOMAIN b[c] : \A j \in DOMAIN b[c] :
                    i < j => StrLess(b[c][i].accountNumber, b[c][j].accountNumber)
        /\ \A a \in active :
              /\ Cardinality({ i \in DOMAIN b[a.category] :
                                  b[a.category][i].accountNumber = a.accountNumber }) = 1
              /\ (\A l \in journal_entry_lines : l.accountId # a.id)
                    => \E i \in DOMAIN b[a.category] :
                          /\ b[a.category][i].accountNumber = a.accountNumber
                          /\ b[a.category][i].totalDebit = 0
                          /\ b[a.category][i].totalCredit = 0
                          /\ b[a.category][i].balance = 0

\* the balances were read while the deactivated revenue account had a line and
\* the liabilities account had none
C8_Witness ==
    /\ lastRead.op = "getAccountBalances"
    /\ lastRead.reply.kind = "ok"
    /\ \E l \in journal_entry_lines : l.accountId = 4
    /\ lastRead.reply.value[1].revenue = <<>>
    /\ Len(lastRead.reply.value[1].liabilities) = 1
    /\ lastRead.reply.value[1].liabilities[1].balance = 0
    /\ Len(lastRead.reply.value[1].assets) = 2

\* sum of the balances, computed line by line, of a set of accounts
RECURSIVE DirectBalanceOf(_)
DirectBalanceOf(accounts) ==
    IF accounts = {} THEN 0
    ELSE LET a == CHOOSE x \in accounts : TRUE
         IN  DirectDebit(a.id) - DirectCredit(a.id) + DirectBalanceOf(accounts \ {a})

ActiveOf(category) == { a \in chart_of_accounts : a.isActive /\ a.category = category }

\* getAccountingOverview has just returned a result; storage is as it was read
OverviewRead == lastRead.op = "getAccountingOverview" /\ lastRead.reply.kind = "ok"

\* C9: getAccountingOverview reports, for each category, the sum of the
\* balances of the active accounts of that category, and netIncome equal to
\* totalRevenue minus totalExpenses.
C9_OverviewTotals ==
    OverviewRead =>
    LET o == lastRead.reply.value[1]
    IN  /\ o.totalAssets = DirectBalanceOf(ActiveOf("assets"))
        /\ o.totalLiabilities = DirectBalanceOf(ActiveOf("liabilities"))
        /\ o.totalEquity = DirectBalanceOf(ActiveOf("equity"))
        /\ o.totalRevenue = DirectBalanceOf(ActiveOf("revenue"))
        /\ o.totalExpenses = DirectBalanceOf(ActiveOf("expenses"))
        /\ o.netIncome = o.totalRevenue - o.totalExpenses

\* the overview was read after the rent entry and the sale entry were committed
C9_Witness ==
    /\ lastRead.op = "getAccountingOverview"
    /\ lastRead.reply.kind = "ok"
    /\ Cardinality(journal_entries) = 2
    /\ lastRead.reply.value[1].totalExpenses = 1500000
    /\ lastRead.reply.value[1].totalAssets = 1010 - 1500000
    /\ lastRead.reply.value[1].netIncome = -1500000

\* C10: a step of a seed run that found, or finds, at least one account in the
\* registry changes neither the accounts nor the id sequence, and its count
\* step ends the run as skipped; so a run after a completed run inserts nothing.
C10_SeedIdempotent ==
    [][\A s \in Seeders :
         ( /\ seed'.run[s] # seed.run[s]
           /\ \/ seed.run[s].pc = "count" /\ chart_of_accounts # {}
              \/ seed.run[s].pc = "insert" /\ seed.run[s].count > 0 )
         => ( /\ chart_of_accounts' = chart_of_accounts
              /\ coaSeq' = coaSeq
              /\ seed.run[s].pc = "count"
                    => seed'.run[s].pc = "done" /\ seed'.run[s].result = "skipped" )]_vars

\* a second run has skipped a registry that the first run had seeded in full
C10_Witness ==
    /\ chart_of_accounts = SeededChart
    /\ seed.runs = 2
    /\ \E s \in Seeders :
          /\ seed.run[s].pc = "done"
          /\ seed.run[s].result = "skipped"
          /\ seed.run[s].count = Len(StandardAccounts)
          /\ \A o \in Seeders \ {s} : seed.run[o].pc = "idle"


\* a seed run has just inserted its whole list into a registry it counted empty
SeedCompletes(s) ==
    /\ seed.run[s].result # "seeded"
    /\ seed'.run[s].result = "seeded"
    /\ seed.run[s].count = 0

EntryDelta(a, category) ==
    SumSeq([k \in 1..Len(a) |->
        IF \E x \in ActiveOf(category) : x.id = a[k].accountId
        THEN Round2(NumberOrZero(a[k].debit)) - Round2(NumberOrZero(a[k].credit))
        ELSE 0])

\* C12: the overview computed after a commit differs from the overview computed
\* before it, in each category total, by the sum of debit minus credit over the
\* committed entry's lines on active accounts of that category; nothing of the
\* entry is left out and nothing is carried over from an earlier total.
C12_OverviewReflectsCommit ==
    [][\A c \in Clients :
         (calls[c].pc = "commit" /\ journal_entries' # journal_entries) =>
            LET before == getAccountingOverview(chart_of_accounts, journal_entry_lines)
                after == getAccountingOverview(chart_of_accounts', journal_entry_lines')
                a == calls[c].payload.lines.a
            IN  /\ after.totalAssets = before.totalAssets + EntryDelta(a, "assets")
                /\ after.totalLiabilities = before.totalLiabilities + EntryDelta(a, "liabilities")
                /\ after.totalEquity = before.totalEquity + EntryDelta(a, "equity")
                /\ after.totalRevenue = before.totalRevenue + EntryDelta(a, "revenue")
                /\ after.totalExpenses = before.totalExpenses + EntryDelta(a, "expenses")
                /\ after.netIncome = before.netIncome + EntryDelta(a, "revenue")
                                                      - EntryDelta(a, "expenses")]_vars

\* the overview was read right after the rent entry was committed as the only
\* entry: expenses are up by 1500 and assets down by 1500
C12_Witness ==
    /\ OverviewRead
    /\ Cardinality(journal_entries) = 1
    /\ \E e \in journal_entries : e.description = "Rent"
    /\ calls[1].pc = "select_entry"
    /\ lastRead.reply.value[1].totalExpenses = 1500000
    /\ lastRead.reply.value[1].totalAssets = -1500000
    /\ lastRead.reply.value[1].totalRevenue = 0


\* account ids a submitted payload references
AccountsOf(p) == { p.lines.a[k].accountId : k \in DOMAIN p.lines.a }

\* both clients have submitted payloads that pass validation and reference
\* existing accounts, no account is referenced by both, and storage has not failed
DisjointValidPair ==
    /\ \A c \in Clients : calls[c].pc # "idle"
    /\ \A c \in Clients : Rejection(databaseConfig, calls[c].payload) = NoReply
    /\ \A c \in Clients : \A id \in AccountsOf(calls[c].payload) :
          AccountExists(chart_of_accounts, id)
    /\ AccountsOf(calls[1].payload) \cap AccountsOf(calls[2].payload) = {}
    /\ faults = 0

\* the call is past its COMMIT
PastCommit(c) == calls[c].pc \in {"select_entry", "select_lines", "end", "done"}

\* debit and credit, as stored, that a payload puts on an account
PayloadDebit(p, id) ==
    SumSeq([k \in 1..Len(p.lines.a) |->
        IF p.lines.a[k].accountId = id THEN Round2(NumberOrZero(p.lines.a[k].debit)) ELSE 0])
PayloadCredit(p, id) ==
    SumSeq([k \in 1..Len(p.lines.a) |->
        IF p.lines.a[k].accountId = id THEN Round2(NumberOrZero(p.lines.a[k].credit)) ELSE 0])

\* C13: two concurrent calls on valid payloads over disjoint existing accounts:
\* in every interleaving neither call fails or is rolled back, every pending
\* call can take its next step, a call past its COMMIT has its header and all
\* its lines in storage, and once both are past COMMIT the two ids differ and
\* getAccountBalances shows for every active account the amounts of both.
C13_DisjointCallsBothCommit ==
    DisjointValidPair =>
        /\ \A c \in Clients :
              /\ calls[c].pc # "rollback"
              /\ calls[c].tx # "failed"
              /\ calls[c].error = NoReply
              /\ calls[c].pc = "done" => calls[c].reply.kind = "ok"
              /\ calls[c].pc # "done" => ENABLED Step(c)
              /\ PastCommit(c) =>
                    /\ \E e \in journal_entries :
                          /\ e.id = calls[c].journalEntryId
                          /\ e.description = calls[c].payload.description
                    /\ Cardinality({ l \in journal_entry_lines :
                                        l.journalEntryId = calls[c].journalEntryId })
                          = Len(calls[c].payload.lines.a)
        /\ (PastCommit(1) /\ PastCommit(2)) =>
              /\ calls[1].journalEntryId # calls[2].journalEntryId
              /\ Cardinality(journal_entries) = 2
              /\ LET b == getAccountBalances(chart_of_accounts, journal_entry_lines)
                 IN  \A a \in chart_of_accounts :
                        a.isActive =>
                           \E i \in DOMAIN b[a.category] :
                              /\ b[a.category][i].accountNumber = a.accountNumber
                              /\ b[a.category][i].totalDebit =
                                    PayloadDebit(calls[1].payload, a.id)
                                    + PayloadDebit(calls[2].payload, a.id)
                              /\ b[a.category][i].totalCredit =
                                    PayloadCredit(calls[1].payload, a.id)
                                    + PayloadCredit(calls[2].payload, a.id)

\* the rent entry and the sale entry were submitted in that order, the second
\* call inserted its header first, and both calls have returned their entries
C13_Witness ==
    /\ DisjointValidPair
    /\ calls[1].pc = "done" /\ calls[2].pc = "done"
    /\ calls[1].reply.kind = "ok" /\ calls[2].reply.kind = "ok"
    /\ calls[1].journalEntryId = 2
    /\ calls[2].journalEntryId = 1
    /\ Cardinality(journal_entry_lines) = 4


\* getJournalEntries has just returned a result; storage is as it was read
EntriesRead == lastRead.op = "getJournalEntries" /\ lastRead.reply.kind = "ok"

\* entry x is listed before entry y: later date, or same date and higher id
ListedBefore(x, y) ==
    \/ DateValue(x.entryDate) > DateValue(y.entryDate)
    \/ DateValue(x.entryDate) = DateValue(y.entryDate) /\ x.id > y.id

\* C14: the result of getJournalEntries(limit) holds min(limit, number of
\* committed entries) entries, each a committed entry, each listed before the
\* next (date descending, then id descending), and every committed entry left
\* out comes after all the entries returned.
C14_RecentEntriesFirst ==
    EntriesRead =>
        LET r == lastRead.reply.value[1]
            limit == lastRead.arg[1]
        IN  /\ Len(r) <= limit
            /\ Len(r) = IF Cardinality(journal_entries) <= limit
                        THEN Cardinality(journal_entries) ELSE limit
            /\ \A i \in DOMAIN r : r[i] \in journal_entries
            /\ \A i \in DOMAIN r : \A j \in DOMAIN r : i < j => ListedBefore(r[i], r[j])
            /\ \A e \in journal_entries :
                  (\A i \in DOMAIN r : r[i] # e) => \A i \in DOMAIN r : ListedBefore(r[i], e)

\* with limit 1, the sale entry dated 2024-02-01 (id 1) was returned and the
\* rent entry dated 2024-01-01, inserted after it (id 2), was cut off
C14_Witness ==
    /\ EntriesRead
    /\ lastRead.arg = <<1>>
    /\ Cardinality(journal_entries) = 2
    /\ Len(lastRead.reply.value[1]) = 1
    /\ lastRead.reply.value[1][1].id = 1
    /\ lastRead.reply.value[1][1].description = "Sale"


\* getChartOfAccounts has just returned a result; storage is as it was read
ChartRead == lastRead.op = "getChartOfAccounts" /\ lastRead.reply.kind = "ok"

\* code a precedes code b as character strings: at the first position where
\* they differ a has the smaller character, or a is a proper prefix of b
CodeBefore(a, b) ==
    \E k \in 1..(Len(a) + 1) :
        /\ \A j \in 1..(k - 1) : j <= Len(b) /\ a[j] = b[j]
        /\ \/ k = Len(a) + 1 /\ Len(b) >= k
           \/ k <= Len(a) /\ k <= Len(b) /\ a[k] < b[k]

\* the number a code of decimal digits denotes
RECURSIVE CodeNumber(_)
CodeNumber(a) ==
    IF a = <<>> THEN 0 ELSE 10 * CodeNumber(SubSeq(a, 1, Len(a) - 1)) + a[Len(a)]

\* the accounts getChartOfAccounts is to return for a category argument
Selected(category) ==
    IF category # Undefined /\ category # ""
    THEN { a \in chart_of_accounts : a.category = category }
    ELSE chart_of_accounts

\* the result holds exactly the selected accounts, each once
ReturnsSelected(r, category) ==
    /\ { r[i] : i \in DOMAIN r } = Selected(category)
    /\ Len(r) = Cardinality(Selected(category))

\* C15 (amended): getChartOfAccounts returns the accounts ordered by account
\* code ascending, the codes compared as character strings; with a category
\* filter exactly the accounts of that category, without one every account,
\* active or not.
C15_ChartInStringOrder ==
    ChartRead =>
        LET r == lastRead.reply.value[1]
        IN  /\ ReturnsSelected(r, lastRead.arg[1])
            /\ \A i \in DOMAIN r : \A j \in DOMAIN r :
                  i < j => CodeBefore(r[i].accountNumber, r[j].accountNumber)

\* the whole chart was read: five accounts, the deactivated one among them,
\* code 1010 first and code 900 last
C15_Witness ==
    /\ ChartRead
    /\ lastRead.arg = <<Undefined>>
    /\ Len(lastRead.reply.value[1]) = 5
    /\ lastRead.reply.value[1][1].accountNumber = <<1,0,1,0>>
    /\ lastRead.reply.value[1][5].accountNumber = <<9,0,0>>
    /\ \E i \in 1..5 : ~lastRead.reply.value[1][i].isActive

\* C15 as stated: the accounts returned are ordered by account code ascending,
\* the codes compared as numbers, and are the selected accounts.
C15_ChartInNumericOrder ==
    ChartRead =>
        LET r == lastRead.reply.value[1]
        IN  /\ ReturnsSelected(r, lastRead.arg[1])
            /\ \A i \in DOMAIN r : \A j \in DOMAIN r :
                  i < j => CodeNumber(r[i].accountNumber) < CodeNumber(r[j].accountNumber)


\* C16: no two accounts in the registry share an account code, whatever seed
\* runs have executed and however their steps interleaved.
C16_AccountCodesUnique ==
    \A a \in chart_of_accounts : \A b \in chart_of_accounts :
        a.accountNumber = b.accountNumber => a = b

\* two seed runs both counted 0 accounts; one is inserting, and the other, with
\* no storage failure injected, was stopped by the unique constraint
C16_Witness ==
    /\ faults = 0
    /\ chart_of_accounts # {}
    /\ \E s \in Seeders : \E o \in Seeders \ {s} :
          /\ seed.run[s].count = 0 /\ seed.run[s].pc = "done" /\ seed.run[s].result = "failed"
          /\ seed.run[o].count = 0 /\ seed.run[o].pc = "insert"


\* every committed line references a committed entry and an account of the chart
ReferencesHold ==
    \A l \in journal_entry_lines :
        /\ \E e \in journal_entries : e.id = l.journalEntryId
        /\ \E a \in chart_of_accounts : a.id = l.accountId

\* a delete of an account that a committed line references fails and changes
\* neither the accounts nor the lines
RestrictRule ==
    \A id \in { l.accountId : l \in journal_entry_lines } :
        (lastRead'.op = "deleteAccount" /\ lastRead'.arg = <<id>>) =>
            /\ lastRead'.reply.kind = "error"
            /\ chart_of_accounts' = chart_of_accounts
            /\ journal_entry_lines' = journal_entry_lines

\* a delete of a journal entry removes the entry, all of its lines and nothing else
CascadeRule ==
    \A e \in journal_entries :
        (lastRead'.op = "deleteJournalEntry" /\ lastRead'.arg = <<e.id>>) =>
            /\ e \notin journal_entries'
            /\ journal_entry_lines' =
                  { l \in journal_entry_lines : l.journalEntryId # e.id }
            /\ \E l \in journal_entry_lines : l.journalEntryId = e.id
            /\ chart_of_accounts' = chart_of_accounts

\* C17: in every state every committed line references an existing entry and
\* an existing account; deleting an account referenced by a line fails and
\* leaves accounts and lines unchanged; deleting an entry removes its lines.
C17_ReferentialIntegrity ==
    [][/\ ReferencesHold /\ ReferencesHold'
       /\ lastRead = NoRead => (RestrictRule /\ CascadeRule)]_vars

\* the delete of the Cash account was refused while the rent entry's lines
\* reference it, after the unreferenced Payables account had been deleted
C17_Witness ==
    /\ lastRead.op = "deleteAccount"
    /\ lastRead.arg = <<2>>
    /\ lastRead.reply = ForeignKeyViolation
    /\ \E l \in journal_entry_lines : l.accountId = 2
    /\ ~\E a \in chart_of_accounts : a.id = 5
    /\ \E a \in chart_of_accounts : a.id = 2


\* the lines field submitted is missing, not an array, or an empty array
NoLinesSubmitted(p) == p.lines.t # "array" \/ Len(p.lines.a) = 0

\* C18: every committed journal entry has at least one committed line, and a
\* call whose lines field is missing, not an array or empty ends in an error
\* without having issued a statement or obtained an entry id.
C18_EntriesHaveLines ==
    /\ \A e \in journal_entries :
          \E l \in journal_entry_lines : l.journalEntryId = e.id
    /\ \A c \in Clients :
          (calls[c].pc # "idle" /\ NoLinesSubmitted(calls[c].payload)) =>
             /\ calls[c].pc = "done"
             /\ calls[c].reply.kind = "error"
             /\ calls[c].journalEntryId = 0
             /\ calls[c].log = <<>>

\* after an entry was committed, a call with a date, a description and an
\* empty lines array was rejected by validation
C18_Witness ==
    /\ Cardinality(journal_entries) = 1
    /\ calls[1].pc = "done"
    /\ calls[1].payload = Payload("2024-01-01", "No lines", LinesArray(<<>>))
    /\ calls[1].reply.code = ValidationCode
    /\ Len(calls[1].reply.issues) = 1


\* the amounts of a submitted line are not negative and exactly one is non-zero
OneSided(line) ==
    /\ NumberOrZero(line.debit) >= 0
    /\ NumberOrZero(line.credit) >= 0
    /\ (NumberOrZero(line.debit) = 0) # (NumberOrZero(line.credit) = 0)

\* C19: every committed journal entry line has debit >= 0 and credit >= 0 and
\* exactly one of the two is non-zero, and every committed entry came from a
\* payload all of whose lines are such.
C19_LinesOneSided ==
    /\ \A l \in journal_entry_lines :
          /\ l.debit >= 0
          /\ l.credit >= 0
          /\ (l.debit = 0) # (l.credit = 0)
    /\ \A e \in journal_entries :
          \A k \in DOMAIN origin[e.id] : OneSided(origin[e.id][k])


\* C20: once the caller of createJournalEntry has received the result or the
\* error of its call, a timeout included, the call holds no connection and no
\* open transaction; and a call that has ended has closed its connection.
C20_ConnectionsReleased ==
    \A c \in Clients :
        /\ calls[c].reply # NoReply => (~calls[c].conn /\ calls[c].tx = "none")
        /\ calls[c].pc = "done" => ~calls[c].conn


\* C21: after the timeout of a call has been reported to its caller, the call
\* issues no further storage statement and no entry of that call is committed.
C21_TimeoutAbandons ==
    [][\A c \in Clients :
         calls[c].reply = TimeoutError =>
            /\ calls'[c].log = calls[c].log
            /\ \A e \in journal_entries' \ journal_entries :
                  e.id # calls[c].journalEntryId]_vars


\* how many times a statement of the given name appears in a call's log
Count(log, name) == Cardinality({ i \in DOMAIN log : log[i].stmt = name })

\* the calls whose COMMIT succeeded
CommittedCalls ==
    { c \in Clients : \E i \in DOMAIN calls[c].log : calls[c].log[i] = Stmt("COMMIT", 0, TRUE) }

\* C22: whatever statement fails or times out, one createJournalEntry call
\* issues at most one BEGIN, one header insert and one COMMIT, each line insert
\* at most once, and there are no more committed entries than calls whose
\* COMMIT succeeded.
C22_WriteNeverRetried ==
    /\ \A c \in Clients :
          /\ Count(calls[c].log, "BEGIN") <= 1
          /\ Count(calls[c].log, "INSERT_HEADER") <= 1
          /\ Count(calls[c].log, "COMMIT") <= 1
          /\ \A i \in DOMAIN calls[c].log : \A j \in DOMAIN calls[c].log :
                (i # j /\ calls[c].log[i].stmt = "INSERT_LINE" /\ calls[c].log[j].stmt = "INSERT_LINE")
                    => calls[c].log[i].n # calls[c].log[j].n
    /\ Cardinality(journal_entries) <= Cardinality(CommittedCalls)

\* a call whose COMMIT failed has rolled back and ended with the error: one
\* header insert, one COMMIT, nothing committed
C22_Witness ==
    /\ calls[1].pc = "done"
    /\ calls[1].reply = ConnectionFailure
    /\ \E i \in DOMAIN calls[1].log : calls[1].log[i] = Stmt("COMMIT", 0, FALSE)
    /\ Count(calls[1].log, "INSERT_HEADER") = 1
    /\ Count(calls[1].log, "ROLLBACK") = 1
    /\ journal_entries = {}


\* the configuration lacks a host, a database name or a user, or its port is
\* not a positive number
InvalidConfig ==
    \/ databaseConfig.url \in {Undefined, ""}
    \/ databaseConfig.database \in {Undefined, ""}
    \/ databaseConfig.username \in {Undefined, ""}
    \/ ~databaseConfig.port.num
    \/ databaseConfig.port.v <= 0

ConfigCodes == {"ACCOUNTING_SCHEMA_INVALID_DB_CONFIG", "ACCOUNTING_REPOSITORY_INVALID_DB_CONFIG"}

\* C23: under an invalid configuration every createJournalEntry call, whatever
\* its payload, and every read ends with a configuration error, without a
\* connection, a statement or any other contact with storage.
C23_ConfigErrorFirst ==
    InvalidConfig =>
        /\ \A c \in Clients :
              calls[c].pc # "idle" =>
                 /\ calls[c].pc = "done"
                 /\ calls[c].reply.kind = "error"
                 /\ calls[c].reply.code \in ConfigCodes
                 /\ ~calls[c].conn
                 /\ calls[c].log = <<>>
        /\ lastRead # NoRead =>
              /\ lastRead.reply.kind = "error"
              /\ lastRead.reply.code \in ConfigCodes
        /\ faults = 0
        /\ journal_entries = {}

\* without a database name, an unbalanced payload got the configuration error
C23_Witness ==
    /\ databaseConfig.database = ""
    /\ calls[1].pc = "done"
    /\ calls[1].payload.description = "Unbalanced"
    /\ calls[1].reply.code = "ACCOUNTING_SCHEMA_INVALID_DB_CONFIG"
    /\ lastRead = NoRead


\* the machine-readable kinds the ledger itself assigns to its errors
LedgerKinds == ConfigCodes \cup {ValidationCode, "ACCOUNTING_REPOSITORY_TIMEOUT"}

\* C24: every error a createJournalEntry call or a read returns carries one of
\* the ledger's own kinds; no error of the storage engine (and no error without
\* a kind) reaches the caller.
C24_ErrorsCarryLedgerKind ==
    /\ \A c \in Clients :
          calls[c].reply.kind = "error" => calls[c].reply.code \in LedgerKinds
    /\ lastRead.reply.kind = "error" => lastRead.reply.code \in LedgerKinds


\* a returned line without the two columns joined from its account
StoredPart(r) ==
    [id |-> r.id, journalEntryId |-> r.journalEntryId, accountId |-> r.accountId,
     debit |-> r.debit, credit |-> r.credit]

\* C25: the value a successful createJournalEntry call returns holds the
\* committed header row with the id generated for the call, and exactly the
\* committed lines of that entry, as many as were submitted, each with the
\* account number and account name of the account it references.
C25_ReturnsReadBack ==
    \A c \in Clients :
        (calls[c].pc = "done" /\ calls[c].reply.kind = "ok") =>
            LET v == calls[c].reply.value[1]
            IN  /\ Len(v.entry) = 1
                /\ v.entry[1] \in journal_entries
                /\ v.entry[1].id = calls[c].journalEntryId
                /\ v.entry[1].id > 0
                /\ v.entry[1].description = calls[c].payload.description
                /\ v.entry[1].entryDate = calls[c].payload.entryDate
                /\ Len(v.lines) = Len(calls[c].payload.lines.a)
                /\ { StoredPart(v.lines[i]) : i \in DOMAIN v.lines }
                      = { l \in journal_entry_lines : l.journalEntryId = v.entry[1].id }
                /\ \A i \in DOMAIN v.lines :
                      \E a \in chart_of_accounts :
                         /\ a.id = v.lines[i].accountId
                         /\ a.accountNumber = v.lines[i].accountNumber
                         /\ a.accountName = v.lines[i].accountName

\* the rent entry came back with id 2, the other call having taken id 1 and
\* committed, its two lines carrying the names of Cash and Rent Expense
C25_Witness ==
    /\ calls[1].pc = "done"
    /\ calls[1].reply.kind = "ok"
    /\ calls[1].reply.value[1].entry[1].id = 2
    /\ Len(calls[1].reply.value[1].lines) = 2
    /\ calls[1].reply.value[1].lines[1].accountName = "Cash - Checking"
    /\ calls[1].reply.value[1].lines[2].accountName = "Rent Expense"
    /\ Cardinality(journal_entries) = 2


\* C26: when a createJournalEntry call has returned an error other than a
\* timeout to its caller, storage holds no entry and no line of that call.
C26_ErrorMeansNothingCommitted ==
    \A c \in Clients :
        (calls[c].pc = "done" /\ calls[c].reply.kind = "error" /\ calls[c].reply # TimeoutError) =>
            /\ \A e \in journal_entries :
                  calls[c].journalEntryId > 0 => e.id # calls[c].journalEntryId
            /\ \A l \in journal_entry_lines :
                  calls[c].journalEntryId > 0 => l.journalEntryId # calls[c].journalEntryId

\* initializeAccountingDatabase has resolved for its caller
BootSucceeded == seed.boot.pc = "done" /\ seed.boot.reply.kind = "ok"

\* every account of the standard list is a row of the chart
CompleteStandardList ==
    \A i \in DOMAIN StandardAccounts :
        \E a \in chart_of_accounts : a.accountNumber = StandardAccounts[i].number

\* C27: whenever initializeAccountingDatabase completes successfully the chart
\* holds the complete standard list, also when a failed attempt inserted only a
\* part of it and the retry succeeded
C27_BootSuccessMeansComplete == BootSucceeded => CompleteStandardList

\* what retryWithBackoff has done so far agrees with its contract
RetryContract ==
    LET b == seed.boot
    IN  /\ b.invocations <= b.attempts
        /\ \A k \in DOMAIN b.waits : b.waits[k] = BaseDelayMs * 2 ^ (k - 1)
        /\ b.pc = "loop" => Len(b.waits) = Len(b.errors) /\ b.invocations = Len(b.errors)
        /\ b.outcome = "returned" =>
               /\ b.invocations = Len(b.errors) + 1
               /\ Len(b.waits) = Len(b.errors)
        /\ b.outcome = "thrown" =>
               /\ b.invocations = b.attempts
               /\ Len(b.errors) = b.attempts
               /\ Len(b.waits) = b.attempts - 1
               /\ b.lastError = b.errors[b.attempts]
               /\ b.reply \in {b.lastError, BootTimeoutError}

\* C28: retryWithBackoff invokes the operation at most attempts times, stops at
\* the first success, waits baseDelayMs * 2^(k-1) after the k-th failure and not
\* after the last, throws the last attempt's error when all fail, and terminates
C28_RetryWithBackoff == []RetryContract /\ <>(seed.boot.pc = "done")

\* all three attempts failed, the last one differently from the first two
C28_Witness ==
    /\ seed.boot.outcome = "thrown"
    /\ seed.boot.attempts = 3
    /\ seed.boot.waits = <<500, 1000>>
    /\ seed.boot.errors = <<AdminFailure, AdminFailure, ConnectionFailure>>
    /\ seed.boot.reply = ConnectionFailure

\* the lines stored for an entry
StoredLines(id) == { l \in journal_entry_lines : l.journalEntryId = id }

\* C30: for every accepted entry the amounts as stored, each rounded to two
\* decimals, still differ by at most 0.01 between debits and credits, also for
\* entries of several lines whose submitted amounts have three decimals
C30_StoredWithinTolerance ==
    \A e \in journal_entries :
        Abs(SumDebit(StoredLines(e.id)) - SumCredit(StoredLines(e.id))) <= Tolerance

\* the five totals of an overview, added up
OverviewSum(o) ==
    o.totalAssets + o.totalLiabilities + o.totalEquity + o.totalRevenue + o.totalExpenses

\* C29: with every account active, after n committed entries the five overview
\* totals add up to at most 0.01 * n in absolute value, and to exactly 0 when
\* every committed entry was submitted with equal debits and credits
C29_OverviewSumBounded ==
    (OverviewRead /\ \A a \in chart_of_accounts : a.isActive) =>
        LET sum == OverviewSum(lastRead.reply.value[1])
        IN  /\ Abs(sum) <= Tolerance * Cardinality(journal_entries)
            /\ (\A e \in journal_entries :
                    SubmittedDebits(origin[e.id]) = SubmittedCredits(origin[e.id]))
                => sum = 0

====
